---- MODULE Spec2Model ----
(***************************************************************************)
(* Model of the Codex agent session (CodexAgent) of craft-agents-oss:      *)
(* the event normaliser chat(), the extractors it probes upstream events   *)
(* with, normalizeToolResult, the memoised connection ensureCodex(), the   *)
(* thread cache ensureThread() and the setters that resume the thread.     *)
(*                                                                         *)
(* JavaScript values are tagged records [k, v]; a JavaScript string is a   *)
(* sequence of one-character strings, so that includes(), replaceAll(),    *)
(* toLowerCase() and template concatenation are computed, not assumed.     *)
(***************************************************************************)
EXTENDS Integers, Sequences, FiniteSets, TLC

(* ------------------------------------------------------------------ *)
(* Bounds of the model                                                *)
(* ------------------------------------------------------------------ *)
MaxEvents == 3
MaxTurns == 2
NCallers == 2
MaxAttempts == 2
MaxSetterCalls == 2
MaxNameLen == 3
MaxAbortCalls == 3

(* ------------------------------------------------------------------ *)
(* JavaScript values                                                  *)
(* ------------------------------------------------------------------ *)
Undef == [k |-> "undefined"]
Null == [k |-> "null"]
Str(s) == [k |-> "string", v |-> s]
Num(n) == [k |-> "number", v |-> n]
Bool(b) == [k |-> "boolean", v |-> b]
Obj(r) == [k |-> "object", v |-> r]

IsUndef(x) == x.k = "undefined"
IsNullish(x) == x.k \in {"undefined", "null"}
IsString(x) == x.k = "string"
IsNumber(x) == x.k = "number"
IsObject(x) == x.k = "object"

\* ToBoolean: the truthiness of a value (Boolean(x), !x, x && ..., x ? :).
Truthy(x) ==
  CASE x.k = "undefined" -> FALSE
    [] x.k = "null" -> FALSE
    [] x.k = "string" -> Len(x.v) > 0
    [] x.k = "number" -> x.v # 0
    [] x.k = "boolean" -> x.v
    [] OTHER -> TRUE

\* o.f and o?.f : undefined when o is not an object or has no such property.
Get(o, f) == IF o.k = "object" /\ f \in DOMAIN o.v THEN o.v[f] ELSE Undef

\* a ?? b ?? ... : the first operand that is neither undefined nor null,
\* else the last operand.
RECURSIVE Coalesce(_)
Coalesce(xs) ==
  IF Len(xs) = 1 THEN xs[1]
  ELSE IF IsNullish(xs[1]) THEN Coalesce(Tail(xs)) ELSE xs[1]

\* a === b on the values the model uses (no object identity is compared).
StrictEq(a, b) == a.k = b.k /\ (a.k \in {"undefined", "null"} \/ a.v = b.v)

(* ------------------------------------------------------------------ *)
(* String operations (strings are sequences of characters)            *)
(* ------------------------------------------------------------------ *)
Includes(s, sub) ==
  \E i \in 1..(Len(s) - Len(sub) + 1) : SubSeq(s, i, i + Len(sub) - 1) = sub

StartsWith(s, p) == Len(s) >= Len(p) /\ SubSeq(s, 1, Len(p)) = p

\* s.replaceAll(c, '') for a one-character c
RemoveAll(s, c) == SelectSeq(s, LAMBDA ch : ch # c)

LowerOf(ch) ==
  CASE ch = "A" -> "a" [] ch = "B" -> "b" [] ch = "C" -> "c" [] ch = "D" -> "d"
    [] ch = "E" -> "e" [] ch = "F" -> "f" [] ch = "G" -> "g" [] ch = "H" -> "h"
    [] ch = "I" -> "i" [] ch = "J" -> "j" [] ch = "K" -> "k" [] ch = "L" -> "l"
    [] ch = "M" -> "m" [] ch = "N" -> "n" [] ch = "O" -> "o" [] ch = "P" -> "p"
    [] ch = "Q" -> "q" [] ch = "R" -> "r" [] ch = "S" -> "s" [] ch = "T" -> "t"
    [] ch = "U" -> "u" [] ch = "V" -> "v" [] ch = "W" -> "w" [] ch = "X" -> "x"
    [] ch = "Y" -> "y" [] ch = "Z" -> "z" [] OTHER -> ch

ToLowerCase(s) == [i \in 1..Len(s) |-> LowerOf(s[i])]

\* String(x) inside a template literal
ToStr(x) ==
  CASE x.k = "string" -> x.v
    [] x.k = "null" -> <<"n", "u", "l", "l">>
    [] x.k = "undefined" -> <<"u", "n", "d", "e", "f", "i", "n", "e", "d">>
    [] x.k = "number" -> IF x.v = 0 THEN <<"0">> ELSE <<"1">>
    [] x.k = "boolean" -> IF x.v THEN <<"t", "r", "u", "e">> ELSE <<"f", "a", "l", "s", "e">>
    [] OTHER -> <<"[", "o", "b", "j", "e", "c", "t", "]">>

(* ------------------------------------------------------------------ *)
(* String literals of the source                                      *)
(* ------------------------------------------------------------------ *)
S_delta == <<"d", "e", "l", "t", "a">>
S_tool == <<"t", "o", "o", "l">>
S_completed == <<"c", "o", "m", "p", "l", "e", "t", "e", "d">>
S_failed == <<"f", "a", "i", "l", "e", "d">>
S_bash == <<"b", "a", "s", "h">>
S_itemDot == <<"i", "t", "e", "m", ".">>
S_itemSlash == <<"i", "t", "e", "m", "/">>
S_itemUnderscore == <<"i", "t", "e", "m", "_">>
S_agentmessage == <<"a", "g", "e", "n", "t", "m", "e", "s", "s", "a", "g", "e">>
S_commandexecution ==
  <<"c", "o", "m", "m", "a", "n", "d", "e", "x", "e", "c", "u", "t", "i", "o", "n">>
S_mcptoolcall == <<"m", "c", "p", "t", "o", "o", "l", "c", "a", "l", "l">>
S_threadStarted == <<"t", "h", "r", "e", "a", "d", ".", "s", "t", "a", "r", "t", "e", "d">>
S_itemCompletedSlash ==
  <<"i", "t", "e", "m", "/", "c", "o", "m", "p", "l", "e", "t", "e", "d">>
S_cmdOutputDelta ==
  <<"i", "t", "e", "m", "/", "c", "o", "m", "m", "a", "n", "d", "E", "x", "e", "c",
    "u", "t", "i", "o", "n", "/", "o", "u", "t", "p", "u", "t", "D", "e", "l", "t", "a">>
S_fileOutputDelta ==
  <<"i", "t", "e", "m", "/", "f", "i", "l", "e", "C", "h", "a", "n", "g", "e", "/",
    "o", "u", "t", "p", "u", "t", "D", "e", "l", "t", "a">>
\* the separator the template literal puts between output and stderr
S_stderrLabel == <<"\n", "\n", "[", "s", "t", "d", "e", "r", "r", "]", "\n">>
S_attachmentsInfo == <<"C", "o", "d", "e", "x", " ", "S", "D", "K", " ", "c", "u", "r", "r",
    "e", "n", "t", "l", "y", " ", "i", "g", "n", "o", "r", "e", "s", " ", "f", "i", "l", "e",
    " ", "a", "t", "t", "a", "c", "h", "m", "e", "n", "t", "s", ".">>

(* ------------------------------------------------------------------ *)
(* Extractors                                                         *)
(* ------------------------------------------------------------------ *)
\* the guard `!event || typeof event !== 'object'` every extractor starts with
NotAnObject(event) == ~Truthy(event) \/ ~IsObject(event)

ItemOf(data) == Coalesce(<<Get(data, "item"), Get(Get(data, "params"), "item")>>)

extractTextDelta(event) ==
  IF NotAnObject(event) THEN Null
  ELSE LET data == event
           params == Get(data, "params")
           delta == Coalesce(<<Get(data, "delta"), Get(params, "delta")>>)
           item == ItemOf(data)
           text == Coalesce(<<Get(delta, "text"), Get(params, "text"), Get(data, "text"),
                              Get(data, "output_text"), Get(data, "outputText"),
                              Get(item, "text"), Get(item, "content")>>)
       IN IF IsString(text) /\ Len(text.v) > 0 THEN text ELSE Null

extractTextComplete(event) ==
  IF NotAnObject(event) THEN Null
  ELSE LET data == event
           params == Get(data, "params")
           item == ItemOf(data)
           text == Coalesce(<<Get(params, "text"), Get(data, "text"),
                              Get(data, "output_text"), Get(data, "outputText"),
                              Get(item, "text"), Get(item, "content")>>)
       IN IF IsString(text) /\ Len(text.v) > 0 THEN text ELSE Null

\* null, or an object {toolName, toolUseId, input}
extractToolInfo(event) ==
  IF NotAnObject(event) THEN Null
  ELSE LET data == event
           params == Get(data, "params")
           item == ItemOf(data)
           tool == Get(data, "tool")
           toolName == Coalesce(<<Get(data, "tool_name"), Get(data, "toolName"),
                                  Get(tool, "name"), Get(item, "name"), Get(data, "name")>>)
           toolUseId == Coalesce(<<Get(data, "tool_call_id"), Get(data, "toolUseId"),
                                   Get(data, "id"), Get(tool, "id"), Get(item, "id"),
                                   Get(params, "itemId")>>)
           input == Coalesce(<<Get(data, "input"), Get(data, "arguments"),
                               Get(tool, "input"), Get(item, "input")>>)
       IN IF ~Truthy(toolName) \/ ~Truthy(toolUseId) THEN Null
          ELSE Obj([toolName |-> toolName, toolUseId |-> toolUseId, input |-> input])

extractParentToolUseId(event) ==
  IF NotAnObject(event) THEN Null
  ELSE LET data == event
           params == Get(data, "params")
           item == ItemOf(data)
           parent == Coalesce(<<Get(data, "parent_tool_use_id"), Get(data, "parentToolUseId"),
                                Get(data, "parent_id"), Get(params, "parent_item_id"),
                                Get(params, "parentItemId"), Get(item, "parent_id"),
                                Get(item, "parentId")>>)
       IN IF Truthy(parent) THEN parent ELSE Null

\* {intent, displayName}: each the probed value when it is a string, else undefined
extractIntentDisplayName(input, event, item) ==
  LET intent == Coalesce(<<Get(input, "_intent"), Get(event, "intent"),
                           Get(item, "intent"), Get(event, "tool_intent")>>)
      displayName == Coalesce(<<Get(input, "_displayName"), Get(event, "displayName"),
                                Get(item, "_displayName"), Get(item, "displayName")>>)
  IN [intent |-> IF IsString(intent) THEN intent ELSE Undef,
      displayName |-> IF IsString(displayName) THEN displayName ELSE Undef]

extractEventType(event) ==
  IF NotAnObject(event) THEN Null
  ELSE LET data == event
           type == Coalesce(<<Get(data, "type"), Get(data, "event"), Get(data, "method")>>)
       IN IF IsString(type) THEN type ELSE Null

\* takes the type string itself (a sequence of characters)
isItemEvent(type) ==
  Includes(type, S_itemDot) \/ Includes(type, S_itemSlash) \/ Includes(type, S_itemUnderscore)

getItemType(event) ==
  IF NotAnObject(event) THEN Null
  ELSE LET data == event
           item == ItemOf(data)
           itemType == Coalesce(<<Get(item, "type"), Get(data, "item_type"),
                                  Get(data, "itemType")>>)
       IN IF IsString(itemType) THEN itemType ELSE Null

\* itemType?.replaceAll('_', '')?.replaceAll('-', '')?.toLowerCase()
\* a slip that would strip the underscores only
NormalizedItemTypeUnderscoresOnly(itemType) ==
  IF IsNullish(itemType) THEN Undef
  ELSE Str(ToLowerCase(RemoveAll(itemType.v, "_")))

NormalizedItemType(itemType) ==
  IF IsNullish(itemType) THEN Undef
  ELSE Str(ToLowerCase(RemoveAll(RemoveAll(itemType.v, "_"), "-")))

(* ------------------------------------------------------------------ *)
(* Tool results and tool mappings                                     *)
(* ------------------------------------------------------------------ *)
\* a slip that would put the error stream before the output
resultWithMetaStderrFirst(result, stderr) ==
  IF Truthy(stderr)
  THEN ToStr(stderr) \o S_stderrLabel \o ToStr(result)
  ELSE ToStr(result)

\* stderr ? `${String(result)}\n\n[stderr]\n${stderr}` : String(result)
resultWithMeta(result, stderr) ==
  IF Truthy(stderr)
  THEN ToStr(result) \o S_stderrLabel \o ToStr(stderr)
  ELSE ToStr(result)

\* null, or an object {toolUseId, result, isError}.  In the isError
\* expression `===` binds tighter than `??`, so its third operand is the
\* boolean (item?.status === 'failed').
normalizeToolResult(event) ==
  IF NotAnObject(event) THEN Null
  ELSE LET data == event
           params == Get(data, "params")
           item == ItemOf(data)
           stderr == Coalesce(<<Get(data, "stderr"), Get(params, "stderr"),
                                Get(item, "stderr"), Get(item, "error")>>)
           exitCode == Coalesce(<<Get(data, "exit_code"), Get(data, "exitCode"),
                                  Get(params, "exit_code"), Get(params, "exitCode"),
                                  Get(item, "exit_code"), Get(item, "exitCode")>>)
           result == Coalesce(<<Get(data, "result"), Get(data, "output"),
                                Get(params, "output"), Get(params, "delta"),
                                Get(item, "output"), Get(item, "result"),
                                Get(item, "aggregatedOutput")>>)
           toolUseId == Coalesce(<<Get(data, "tool_call_id"), Get(data, "toolUseId"),
                                   Get(data, "id"), Get(item, "id"), Get(params, "itemId")>>)
           isError == Truthy(Coalesce(<<Get(data, "is_error"), Get(data, "isError"),
                                        Bool(StrictEq(Get(item, "status"), Str(S_failed))),
                                        Get(item, "error"),
                                        Bool(IsNumber(exitCode) /\ exitCode.v # 0)>>))
       IN IF ~Truthy(toolUseId) \/ IsUndef(result) THEN Null
          ELSE Obj([toolUseId |-> toolUseId, result |-> Str(resultWithMeta(result, stderr)),
                    isError |-> Bool(isError)])

\* item is an object here (the caller tests it)
mapCommandItemToTool(item) ==
  LET command == Coalesce(<<Get(item, "command"), Get(item, "cmd"),
                            Get(item, "shell"), Get(item, "input")>>)
      id == Get(item, "id")
  IN IF ~Truthy(id) THEN Null
     ELSE Obj([toolName |-> Str(S_bash), toolUseId |-> id,
               input |-> Obj([command |-> command])])

(* ------------------------------------------------------------------ *)
(* MCP tool names                                                     *)
(* ------------------------------------------------------------------ *)
S_mcp == <<"m", "c", "p">>
S_uu == <<"_", "_">>
S_mcpPrefix == S_mcp \o S_uu

\* a slip that would cut at the last separator
LastIndexOf(s, c) == CHOOSE i \in 1..Len(s) : s[i] = c /\ \A j \in (i + 1)..Len(s) : s[j] # c

FirstIndexOf(s, c) == CHOOSE i \in 1..Len(s) : s[i] = c /\ \A j \in 1..(i - 1) : s[j] # c

\* s.split(c) for a one-character separator c
RECURSIVE Split(_, _)
Split(s, c) ==
  IF \A i \in 1..Len(s) : s[i] # c THEN <<s>>
  ELSE LET i == FirstIndexOf(s, c)
       IN <<SubSeq(s, 1, i - 1)>> \o Split(SubSeq(s, i + 1, Len(s)), c)

\* a slip that would not preserve an already canonical name
normalizeMcpToolNameNoPreserve(toolName, item) ==
  LET sourceHint == Coalesce(<<Get(item, "source"), Get(item, "provider"),
                               Get(item, "mcp"), Get(item, "server"),
                               Get(item, "client")>>)
      dotParts == Split(toolName, ".")
      colonParts == Split(toolName, ":")
      slashParts == Split(toolName, "/")
  IN IF Len(dotParts) = 3 /\ dotParts[1] = S_mcp
     THEN S_mcpPrefix \o dotParts[2] \o S_uu \o dotParts[3]
     ELSE IF Len(dotParts) = 2
     THEN S_mcpPrefix \o dotParts[1] \o S_uu \o dotParts[2]
     ELSE IF Len(colonParts) = 2
     THEN S_mcpPrefix \o colonParts[1] \o S_uu \o colonParts[2]
     ELSE IF Len(slashParts) = 2
     THEN S_mcpPrefix \o slashParts[1] \o S_uu \o slashParts[2]
     ELSE IF Truthy(sourceHint)
     THEN S_mcpPrefix \o ToStr(sourceHint) \o S_uu \o toolName
     ELSE toolName

\* toolName is the string itself, item the item object (or undefined);
\* the result is the canonical string
normalizeMcpToolName(toolName, item) ==
  IF StartsWith(toolName, S_mcpPrefix) THEN toolName
  ELSE LET sourceHint == Coalesce(<<Get(item, "source"), Get(item, "provider"),
                                    Get(item, "mcp"), Get(item, "server"),
                                    Get(item, "client")>>)
           dotParts == Split(toolName, ".")
           colonParts == Split(toolName, ":")
           slashParts == Split(toolName, "/")
       IN IF Len(dotParts) = 3 /\ dotParts[1] = S_mcp
          THEN S_mcpPrefix \o dotParts[2] \o S_uu \o dotParts[3]
          ELSE IF Len(dotParts) = 2
          THEN S_mcpPrefix \o dotParts[1] \o S_uu \o dotParts[2]
          ELSE IF Len(colonParts) = 2
          THEN S_mcpPrefix \o colonParts[1] \o S_uu \o colonParts[2]
          ELSE IF Len(slashParts) = 2
          THEN S_mcpPrefix \o slashParts[1] \o S_uu \o slashParts[2]
          ELSE IF Truthy(sourceHint)
          THEN S_mcpPrefix \o ToStr(sourceHint) \o S_uu \o toolName
          ELSE toolName

mapMcpItemToTool(item) ==
  LET toolName == Coalesce(<<Get(item, "tool_name"), Get(item, "toolName"),
                             Get(item, "tool"), Get(item, "name")>>)
      id == Get(item, "id")
      input == Coalesce(<<Get(item, "input"), Get(item, "arguments")>>)
  IN IF ~Truthy(toolName) \/ ~Truthy(id) THEN Null
     ELSE Obj([toolName |-> Str(normalizeMcpToolName(toolName.v, item)),
               toolUseId |-> id, input |-> input])

(* ------------------------------------------------------------------ *)
(* Normalised events (AgentEvent)                                     *)
(* ------------------------------------------------------------------ *)
\* a slip that would report the attachments as a failure
EvInfoAsError(msg) == [type |-> "error", message |-> msg]

EvInfo(msg) == [type |-> "info", message |-> msg]
EvTextDelta(text) == [type |-> "text_delta", text |-> text]
EvTextComplete(text) == [type |-> "text_complete", text |-> text]
EvToolResult(tr) ==
  [type |-> "tool_result", toolUseId |-> Get(tr, "toolUseId"),
   result |-> Get(tr, "result"), isError |-> Get(tr, "isError")]
EvParentUpdate(id, parent) ==
  [type |-> "parent_update", toolUseId |-> id, parentToolUseId |-> parent]
EvComplete == [type |-> "complete"]
\* input: mapped.input ?? {}
EvToolStart(tool, fields, parent) ==
  [type |-> "tool_start", toolName |-> Get(tool, "toolName"),
   toolUseId |-> Get(tool, "toolUseId"),
   input |-> IF IsNullish(Get(tool, "input")) THEN Obj(<<>>) ELSE Get(tool, "input"),
   intent |-> fields.intent, displayName |-> fields.displayName,
   parentToolUseId |-> parent]

\* Map.set(key, value) on the tool-parent map (a function on its keys)
MapSet(m, key, value) ==
  [x \in (DOMAIN m) \cup {key} |-> IF x = key THEN value ELSE m[x]]
MapHas(m, key) == key \in DOMAIN m
EmptyMap == [x \in {} |-> Undef]

(* ------------------------------------------------------------------ *)
(* chat(): what one upstream event does                               *)
(* ------------------------------------------------------------------ *)
\* A step of the loop: the events it yields, the new finalText, the new
\* tool-parent map and the ids handed to onSdkSessionIdUpdate.
StepResult(yields, ft, tp, notified) ==
  [yields |-> yields, finalText |-> ft, toolParents |-> tp, notified |-> notified]

\* (extractEventType(event) ?? '')
TypeOf(event) ==
  LET t == extractEventType(event) IN IF IsNullish(t) THEN <<>> ELSE t.v

\* (extractParentToolUseId(event) ?? undefined)
ParentOf(event) ==
  LET p == extractParentToolUseId(event) IN IF IsNullish(p) THEN Undef ELSE p

\* the body shared by the three tool_start rules, after `mapped` is known
\* to be non-null: record the parent when there is one, yield tool_start
ToolStartStep(mapped, event, item, ft, tp, notified) ==
  LET parentToolUseId == ParentOf(event)
      fields == extractIntentDisplayName(Get(mapped, "input"), event, item)
  IN StepResult(<<EvToolStart(mapped, fields, parentToolUseId)>>, ft,
                IF Truthy(parentToolUseId)
                THEN MapSet(tp, Get(mapped, "toolUseId"), parentToolUseId)
                ELSE tp,
                notified)

\* a slip that would yield the result before the parent assignment
ToolResultStepResultFirst(toolResult, event, ft, tp, notified) ==
  LET parentToolUseId == ParentOf(event)
      id == Get(toolResult, "toolUseId")
  IN IF Truthy(parentToolUseId) /\ ~MapHas(tp, id)
     THEN StepResult(<<EvToolResult(toolResult), EvParentUpdate(id, parentToolUseId)>>,
                     ft, MapSet(tp, id, parentToolUseId), notified)
     ELSE StepResult(<<EvToolResult(toolResult)>>, ft, tp, notified)

\* the body of the tool-result rule: parent_update the first time a parent
\* is seen for the id, then tool_result
ToolResultStep(toolResult, event, ft, tp, notified) ==
  LET parentToolUseId == ParentOf(event)
      id == Get(toolResult, "toolUseId")
  IN IF Truthy(parentToolUseId) /\ ~MapHas(tp, id)
     THEN StepResult(<<EvParentUpdate(id, parentToolUseId), EvToolResult(toolResult)>>,
                     ft, MapSet(tp, id, parentToolUseId), notified)
     ELSE StepResult(<<EvToolResult(toolResult)>>, ft, tp, notified)

\* a slip that would leave out the `continue` of the text-delta rule, so
\* that the event goes on to the later rules
StreamStepFallingThrough(event, ft, tp) ==
  LET type == TypeOf(event)
      threadId == Get(event, "thread_id")
      notified == IF type = S_threadStarted /\ IsString(threadId) /\ Len(threadId.v) > 0
                  THEN <<threadId>> ELSE <<>>
      textDelta == extractTextDelta(event)
      textComplete == extractTextComplete(event)
      toolInfo == extractToolInfo(event)
      normalizedItemType == NormalizedItemType(getItemType(event))
      item == ItemOf(event)
      toolResult == normalizeToolResult(event)
      first == IF Truthy(textDelta)
                  /\ (Includes(type, S_delta) \/ StrictEq(normalizedItemType, Str(S_agentmessage)))
               THEN StepResult(<<EvTextDelta(textDelta)>>, ft \o textDelta.v, tp, notified)
               ELSE StepResult(<<>>, ft, tp, notified)
      rest == IF type = S_cmdOutputDelta \/ type = S_fileOutputDelta
              THEN StepResult(IF Truthy(toolResult) THEN <<EvToolResult(toolResult)>> ELSE <<>>,
                              first.finalText, tp, notified)
              ELSE IF isItemEvent(type) /\ StrictEq(normalizedItemType, Str(S_commandexecution))
              THEN IF Truthy(item) /\ Truthy(mapCommandItemToTool(item))
                   THEN ToolStartStep(mapCommandItemToTool(item), event, item, first.finalText,
                                      tp, notified)
                   ELSE StepResult(<<>>, first.finalText, tp, notified)
              ELSE IF isItemEvent(type) /\ StrictEq(normalizedItemType, Str(S_mcptoolcall))
              THEN IF Truthy(item) /\ Truthy(mapMcpItemToTool(item))
                   THEN ToolStartStep(mapMcpItemToTool(item), event, item, first.finalText,
                                      tp, notified)
                   ELSE StepResult(<<>>, first.finalText, tp, notified)
              ELSE IF Truthy(toolInfo) /\ Includes(type, S_tool)
              THEN ToolStartStep(toolInfo, event, Undef, first.finalText, tp, notified)
              ELSE IF Truthy(toolResult)
                      /\ (Includes(type, S_completed) \/ type = S_itemCompletedSlash)
              THEN ToolResultStep(toolResult, event, first.finalText, tp, notified)
              ELSE IF Truthy(textComplete)
                      /\ (Includes(type, S_completed)
                          \/ StrictEq(normalizedItemType, Str(S_agentmessage)))
              THEN StepResult(<<EvTextComplete(textComplete)>>, textComplete.v, tp, notified)
              ELSE StepResult(<<>>, first.finalText, tp, notified)
  IN StepResult(first.yields \o rest.yields, rest.finalText, rest.toolParents, notified)

\* one iteration of `for await (const event of events)` on the streaming path
StreamStep(event, ft, tp) ==
  LET type == TypeOf(event)
      threadId == Get(event, "thread_id")
      notified == IF type = S_threadStarted /\ IsString(threadId) /\ Len(threadId.v) > 0
                  THEN <<threadId>> ELSE <<>>
      textDelta == extractTextDelta(event)
      textComplete == extractTextComplete(event)
      toolInfo == extractToolInfo(event)
      normalizedItemType == NormalizedItemType(getItemType(event))
      item == ItemOf(event)
      toolResult == normalizeToolResult(event)
  IN IF Truthy(textDelta)
        /\ (Includes(type, S_delta) \/ StrictEq(normalizedItemType, Str(S_agentmessage)))
     THEN StepResult(<<EvTextDelta(textDelta)>>, ft \o textDelta.v, tp, notified)
     ELSE IF type = S_cmdOutputDelta \/ type = S_fileOutputDelta
     THEN StepResult(IF Truthy(toolResult) THEN <<EvToolResult(toolResult)>> ELSE <<>>,
                     ft, tp, notified)
     ELSE IF isItemEvent(type) /\ StrictEq(normalizedItemType, Str(S_commandexecution))
     THEN IF Truthy(item) /\ Truthy(mapCommandItemToTool(item))
          THEN ToolStartStep(mapCommandItemToTool(item), event, item, ft, tp, notified)
          ELSE StepResult(<<>>, ft, tp, notified)
     ELSE IF isItemEvent(type) /\ StrictEq(normalizedItemType, Str(S_mcptoolcall))
     THEN IF Truthy(item) /\ Truthy(mapMcpItemToTool(item))
          THEN ToolStartStep(mapMcpItemToTool(item), event, item, ft, tp, notified)
          ELSE StepResult(<<>>, ft, tp, notified)
     ELSE IF Truthy(toolInfo) /\ Includes(type, S_tool)
     THEN ToolStartStep(toolInfo, event, Undef, ft, tp, notified)
     ELSE IF Truthy(toolResult)
             /\ (Includes(type, S_completed) \/ type = S_itemCompletedSlash)
     THEN ToolResultStep(toolResult, event, ft, tp, notified)
     ELSE IF Truthy(textComplete)
             /\ (Includes(type, S_completed)
                 \/ StrictEq(normalizedItemType, Str(S_agentmessage)))
     THEN StepResult(<<EvTextComplete(textComplete)>>, textComplete.v, tp, notified)
     ELSE StepResult(<<>>, ft, tp, notified)

\* one iteration over runResult.events when it is an async iterable
FallbackAsyncStep(event, ft, tp) ==
  LET type == TypeOf(event)
      textDelta == extractTextDelta(event)
      textComplete == extractTextComplete(event)
      toolInfo == extractToolInfo(event)
      toolResult == normalizeToolResult(event)
  IN IF Truthy(textDelta)
     THEN StepResult(<<EvTextDelta(textDelta)>>, ft \o textDelta.v, tp, <<>>)
     ELSE IF Truthy(toolInfo) /\ Includes(type, S_tool)
     THEN ToolStartStep(toolInfo, event, Undef, ft, tp, <<>>)
     ELSE IF Truthy(toolResult) /\ Includes(type, S_completed)
     THEN ToolResultStep(toolResult, event, ft, tp, <<>>)
     ELSE IF Truthy(textComplete)
     THEN StepResult(<<EvTextComplete(textComplete)>>, textComplete.v, tp, <<>>)
     ELSE StepResult(<<>>, ft, tp, <<>>)

\* one iteration over runResult.events when it is a plain iterable
FallbackSyncStep(event, ft, tp) ==
  LET textDelta == extractTextDelta(event)
  IN IF Truthy(textDelta)
     THEN StepResult(<<EvTextDelta(textDelta)>>, ft \o textDelta.v, tp, <<>>)
     ELSE StepResult(<<>>, ft, tp, <<>>)

\* Lines 969-971, inside the else block, where resultText is in scope.
\* a slip that would leave the run's own text out
FallbackFinalTextIgnoringResult(ft, resultText) == ft

FallbackFinalText(ft, resultText) ==
  IF Len(ft) = 0 /\ Truthy(resultText) THEN resultText.v ELSE ft

\* Lines 974-983, after the if/else.  `resultText` is declared with const
\* inside the else block (line 908), so the identifier at line 975 is not
\* bound there: when finalText is empty the right operand of && is
\* evaluated and raises ReferenceError, and nothing more is yielded; when
\* finalText is not empty the operand is not evaluated.
Terminate(ft) ==
  IF Len(ft) = 0
  THEN [pc |-> "threw", yields |-> <<>>]
  ELSE [pc |-> "done", yields |-> <<EvTextComplete(Str(ft)), EvComplete>>]

(* ------------------------------------------------------------------ *)
(* Thinking levels and thread options                                 *)
(* ------------------------------------------------------------------ *)
ThinkingLevels == {"off", "think", "max", "low", "medium", "high", "xhigh"}

S_codexMini == <<"c", "o", "d", "e", "x", "-", "m", "i", "n", "i">>
\* 'gpt-5.2-codex' and 'gpt-5.1-codex-mini'
M_codex == <<"g", "p", "t", "-", "5", ".", "2", "-", "c", "o", "d", "e", "x">>
M_codexMini ==
  <<"g", "p", "t", "-", "5", ".", "1", "-", "c", "o", "d", "e", "x", "-", "m", "i", "n", "i">>

\* a slip that would leave out the `low` case
normalizeThinkingLevelForClaudeNoLow(level) ==
  IF level \in {"off", "think", "max"} THEN level
  ELSE IF level = "medium" THEN "think"
  ELSE "max"

normalizeThinkingLevelForClaude(level) ==
  IF level \in {"off", "think", "max"} THEN level
  ELSE IF level = "low" THEN "off"
  ELSE IF level = "medium" THEN "think"
  ELSE "max"

\* a slip that would not look at the model
normalizeThinkingLevelForCodexAnyModel(level, modelId) ==
  IF level \in {"low", "medium", "high", "xhigh"} THEN level
  ELSE IF level = "off" THEN "low"
  ELSE IF level = "think" THEN "medium"
  ELSE "high"

\* modelId is a JavaScript value (a string or undefined)
normalizeThinkingLevelForCodex(level, modelId) ==
  LET isMini == Truthy(modelId) /\ Includes(modelId.v, S_codexMini)
      normalized == IF level \in {"low", "medium", "high", "xhigh"} THEN level
                    ELSE IF level = "off" THEN "low"
                    ELSE IF level = "think" THEN "medium"
                    ELSE "high"
  IN IF isMini /\ normalized = "low" THEN "medium"
     ELSE IF isMini /\ normalized = "xhigh" THEN "high"
     ELSE normalized

\* The options object; a property the code does not set is undefined.
\* thinkingLevel is one of the seven non-empty strings, so the test
\* (ultrathinkOverride || thinkingLevel) is true.
buildThreadOptions(m, wd, level, ultra) ==
  [model |-> IF Truthy(m) THEN m ELSE Undef,
   workingDirectory |-> IF Truthy(wd) THEN wd ELSE Undef,
   skipGitRepoCheck |-> TRUE,
   modelReasoningEffort |->
     normalizeThinkingLevelForCodex(IF ultra THEN "xhigh" ELSE level, m)]

(* ------------------------------------------------------------------ *)
(* The SDK's thread handles (CodexThread)                             *)
(* ------------------------------------------------------------------ *)
\* h numbers the handle objects (0: no handle, this.thread === null); id is
\* the handle's id property; options are the options it was made with.
NoThread == [h |-> 0, id |-> Null, options |-> <<>>, runStreamed |-> FALSE]
\* codex.startThread(options): a new handle, whose id is not assigned yet
StartedThread(h, options, rs) ==
  [h |-> h, id |-> Null, options |-> options, runStreamed |-> rs]
\* codex.resumeThread(id, options): a new handle for the thread of that id
ResumedThread(h, id, options, rs) ==
  [h |-> h, id |-> id, options |-> options, runStreamed |-> rs]

(* ------------------------------------------------------------------ *)
(* State                                                              *)
(* ------------------------------------------------------------------ *)
VARIABLES
  \* fields of the CodexAgent instance
  codex,              \* this.codex: 0 (null) or the number of the Codex instance
  codexPromise,       \* this.codexPromise: 0 (null) or the number of the attempt
  thread,             \* this.thread: a thread handle, NoThread for null
  abortController,    \* this.abortController: 0 (null) or the controller's number
  model,              \* this.model
  thinkingLevel,      \* this.thinkingLevel
  ultrathinkOverride, \* this.ultrathinkOverride
  workingDirectory,   \* this.workingDirectory
  toolParents,        \* this.toolParents
  sdkSessionId,       \* this.config.session?.sdkSessionId
  \* the world around the instance
  notified,           \* the ids config.onSdkSessionIdUpdate was called with, in order
  instances,          \* how many Codex objects `new mod.Codex` has constructed
  nHandles,           \* how many thread handles the SDK has returned
  aborted,            \* the numbers of the AbortControllers that were aborted
  attemptState,       \* per creation attempt: "pending", "fulfilled" or "rejected"
  \* the chat() generator in flight
  chatPc,             \* "idle", "running", "streaming", "fallbackAsync", "fallbackSync", "done", "threw"
  out,                \* the events the generator has yielded in this turn
  finalText,          \* let finalText
  resultText,         \* const resultText of the non-streaming branch
  nEvents,            \* upstream events delivered so far, over all turns
  delivered,          \* the upstream events delivered in this turn, in order
  turns,              \* chat() calls so far
  attachments,        \* whether the turn was called with a non-empty attachment list
  \* callers of ensureThread()/ensureCodex() and of the setters
  callerPc,           \* per caller: "idle", "awaiting", "holds" or "failed"
  callerAwaits,       \* per caller: the attempt it awaits (0: none)
  callerGot,          \* per caller: the Codex instance it received (0: none)
  setterCalls,        \* setter calls so far
  lastSetter,         \* the last setter call: its name and the thread before it
  abortLog,           \* per forceAbort()/dispose() call so far: which, and the controller it found
  \* normalizeToolResult applied to one input
  probe,
  probeOut

agentVars == <<codex, codexPromise, thread, abortController, model, thinkingLevel,
               ultrathinkOverride, workingDirectory, toolParents, sdkSessionId>>
worldVars == <<notified, instances, nHandles, aborted, attemptState>>
chatVars == <<chatPc, out, finalText, resultText, nEvents, delivered, turns, attachments>>
callerVars == <<callerPc, callerAwaits, callerGot, setterCalls, lastSetter, abortLog>>
probeVars == <<probe, probeOut>>
vars == <<agentVars, worldVars, chatVars, callerVars, probeVars>>

Callers == 1..NCallers

(* ------------------------------------------------------------------ *)
(* Strings the inputs are made of                                     *)
(* ------------------------------------------------------------------ *)
S_c1 == <<"c", "1">>
S_t1 == <<"t", "1">>
S_m1 == <<"m", "1">>
S_p1 == <<"p", "1">>
S_p2 == <<"p", "2">>
S_th0 == <<"t", "h", "0">>
S_th1 == <<"t", "h", "1">>
S_ls == <<"l", "s">>
S_hi == <<"h", "i">>
S_ok == <<"o", "k">>
S_out == <<"o", "u", "t">>
S_err == <<"e", "r", "r">>
S_fileTxt == <<"f", "i", "l", "e", ".", "t", "x", "t">>
S_Read == <<"R", "e", "a", "d">>
S_src == <<"s", "r", "c">>
S_search == <<"s", "e", "a", "r", "c", "h">>
T_itemCompleted == <<"i", "t", "e", "m", ".", "c", "o", "m", "p", "l", "e", "t", "e", "d">>
T_itemStarted == <<"i", "t", "e", "m", ".", "s", "t", "a", "r", "t", "e", "d">>
T_cmdStarted ==
  <<"i", "t", "e", "m", ".", "c", "o", "m", "m", "a", "n", "d", "E", "x", "e", "c",
    "u", "t", "i", "o", "n", ".", "s", "t", "a", "r", "t", "e", "d">>
T_responseDelta == <<"r", "e", "s", "p", "o", "n", "s", "e", ".", "d", "e", "l", "t", "a">>
T_turnCompleted == <<"t", "u", "r", "n", ".", "c", "o", "m", "p", "l", "e", "t", "e", "d">>
T_turnStarted == <<"t", "u", "r", "n", ".", "s", "t", "a", "r", "t", "e", "d">>
T_toolCall == <<"t", "o", "o", "l", "_", "c", "a", "l", "l">>
IT_command_execution ==
  <<"c", "o", "m", "m", "a", "n", "d", "_", "e", "x", "e", "c", "u", "t", "i", "o", "n">>
IT_agent_message == <<"a", "g", "e", "n", "t", "_", "m", "e", "s", "s", "a", "g", "e">>
IT_mcp_tool_call == <<"m", "c", "p", "_", "t", "o", "o", "l", "_", "c", "a", "l", "l">>

(* ------------------------------------------------------------------ *)
(* Upstream events the streams are drawn from                         *)
(* ------------------------------------------------------------------ *)
\* the three events of the documented command scenario
UpCmdStarted ==
  Obj([type |-> Str(T_cmdStarted), item |-> Obj([id |-> Str(S_c1), command |-> Str(S_ls)])])
UpCmdOutputDelta ==
  Obj([type |-> Str(S_cmdOutputDelta), id |-> Str(S_c1), output |-> Str(S_fileTxt)])
UpCmdCompleted ==
  Obj([type |-> Str(T_itemCompleted),
       item |-> Obj([id |-> Str(S_c1), output |-> Str(S_fileTxt), exit_code |-> Num(0)])])
\* an item event that carries its item type, and a parent
UpCmdStartedTyped ==
  Obj([type |-> Str(T_itemStarted),
       item |-> Obj([id |-> Str(S_c1), type |-> Str(IT_command_execution),
                     command |-> Str(S_ls), parent_id |-> Str(S_p1)])])
UpMcpStarted ==
  Obj([type |-> Str(T_itemStarted),
       item |-> Obj([id |-> Str(S_m1), type |-> Str(IT_mcp_tool_call),
                     server |-> Str(S_src), tool |-> Str(S_search)])])
UpTextDelta == Obj([type |-> Str(T_responseDelta), delta |-> Obj([text |-> Str(S_hi)])])
UpAgentMessage ==
  Obj([type |-> Str(T_itemCompleted),
       item |-> Obj([id |-> Str(S_m1), type |-> Str(IT_agent_message), text |-> Str(S_ok)])])
UpTurnCompleted == Obj([type |-> Str(T_turnCompleted), text |-> Str(S_ok)])
UpToolCall ==
  Obj([type |-> Str(T_toolCall), tool_name |-> Str(S_Read), tool_call_id |-> Str(S_t1),
       parent_tool_use_id |-> Str(S_p1)])
UpToolDone ==
  Obj([type |-> Str(T_itemCompleted), id |-> Str(S_t1), result |-> Str(S_out),
       stderr |-> Str(S_err), exit_code |-> Num(1), parent_id |-> Str(S_p2)])
UpThreadStarted == Obj([type |-> Str(S_threadStarted), thread_id |-> Str(S_th1)])
UpTurnStarted == Obj([type |-> Str(T_turnStarted)])
UpNotAnObject == Str(S_hi)

EventPool ==
  {UpCmdStarted, UpCmdOutputDelta, UpCmdCompleted, UpCmdStartedTyped, UpMcpStarted,
   UpTextDelta, UpAgentMessage, UpTurnCompleted, UpToolCall, UpToolDone,
   UpThreadStarted, UpTurnStarted, UpNotAnObject}

\* What thread.run() resolves to: with or without a text, with or without
\* an `events` collection; asyncIterator says whether the collection has
\* Symbol.asyncIterator.
RunResults ==
  {Obj([finalResponse |-> Str(S_ok)]),
   Obj([text |-> Str(S_ok)]),
   Obj([events |-> Obj([asyncIterator |-> Bool(TRUE)])]),
   Obj([text |-> Str(S_ok), events |-> Obj([asyncIterator |-> Bool(TRUE)])]),
   Obj([events |-> Obj([asyncIterator |-> Bool(FALSE)])]),
   Obj([text |-> Str(S_ok), events |-> Obj([asyncIterator |-> Bool(FALSE)])])}

(* ------------------------------------------------------------------ *)
(* The state after construction                                       *)
(* ------------------------------------------------------------------ *)
\* The constructor: no connection, no thread, no controller, an empty
\* parent map; model, thinking level (?? 'think'), working directory and
\* prior thread id from the config.
Constructed(m, level, wd, sid) ==
  /\ codex = 0
  /\ codexPromise = 0
  /\ thread = NoThread
  /\ abortController = 0
  /\ model = m
  /\ thinkingLevel = level
  /\ ultrathinkOverride = FALSE
  /\ workingDirectory = wd
  /\ toolParents = EmptyMap
  /\ sdkSessionId = sid
  /\ notified = <<>>
  /\ instances = 0
  /\ nHandles = 0
  /\ aborted = {}
  /\ attemptState = <<>>

NoChat ==
  /\ chatPc = "idle"
  /\ out = <<>>
  /\ finalText = <<>>
  /\ resultText = Undef
  /\ nEvents = 0
  /\ delivered = <<>>
  /\ turns = 0
  /\ attachments = FALSE

NoCallers ==
  /\ callerPc = [c \in Callers |-> "idle"]
  /\ callerAwaits = [c \in Callers |-> 0]
  /\ callerGot = [c \in Callers |-> 0]
  /\ setterCalls = 0
  /\ lastSetter = [name |-> "none", before |-> NoThread]
  /\ abortLog = <<>>

NoProbe ==
  /\ probe = Undef
  /\ probeOut = Undef

(* ------------------------------------------------------------------ *)
(* chat(): one turn, one step per suspension                          *)
(* ------------------------------------------------------------------ *)
\* a slip that would hand over a step's events ahead of the earlier ones
YieldedFirst(sofar, yields) == yields \o sofar

\* `yield`: the consumer receives the events of a step, in the order of the
\* yield statements, after everything yielded before
Yielded(sofar, yields) == sofar \o yields

\* a slip that would always start a thread, whatever prior id is known
AcquiredThreadAlwaysStarted(h, existingId, options, rs) ==
  StartedThread(h, options, rs)

\* `existingId ? codex.resumeThread(existingId, threadOptions)
\*             : codex.startThread(threadOptions)`
AcquiredThread(h, existingId, options, rs) ==
  IF Truthy(existingId) THEN ResumedThread(h, existingId, options, rs)
  ELSE StartedThread(h, options, rs)

\* what ends the generator: the events Terminate yields, and its outcome
Finish(ft) ==
  /\ finalText' = ft
  /\ out' = Yielded(out, Terminate(ft).yields)
  /\ chatPc' = Terminate(ft).pc

\* a slip that would make a controller only when there is none yet
NewAbortControllerOnce(current, turn) == IF current # 0 THEN current ELSE turn

\* `this.abortController = new AbortController()`: a new controller, named
\* by the number of the turn that makes it
NewAbortController(current, turn) == turn

\* chat(message, attachments) up to the run call: the info event, then
\* ensureThread() (here with no other caller in flight: the connection is
\* made, the thread is resumed under the prior id or started, cached, and
\* its id reported), then a fresh AbortController.  rs says whether the
\* handle the SDK returns has runStreamed.
ChatBegin(att, rs) ==
  /\ chatPc \in {"idle", "done", "threw"}
  /\ turns < MaxTurns
  /\ turns' = turns + 1
  /\ attachments' = att
  /\ LET options == buildThreadOptions(model, workingDirectory, thinkingLevel,
                                       ultrathinkOverride)
         made == AcquiredThread(nHandles + 1, sdkSessionId, options, rs)
         t == IF thread.h # 0 THEN thread ELSE made
     IN /\ thread' = t
        /\ nHandles' = IF thread.h # 0 THEN nHandles ELSE nHandles + 1
        /\ codex' = IF thread.h # 0 \/ codex # 0 THEN codex ELSE instances + 1
        /\ instances' = IF thread.h # 0 \/ codex # 0 THEN instances ELSE instances + 1
        /\ notified' = IF thread.h = 0 /\ Truthy(t.id) THEN Append(notified, t.id)
                       ELSE notified
        /\ chatPc' = IF t.runStreamed THEN "streaming" ELSE "running"
  /\ out' = IF att THEN <<EvInfo(Str(S_attachmentsInfo))>> ELSE <<>>
  /\ abortController' = NewAbortController(abortController, turns + 1)
  /\ finalText' = <<>>
  /\ resultText' = Undef
  /\ delivered' = <<>>
  /\ UNCHANGED <<codexPromise, model, thinkingLevel, ultrathinkOverride, workingDirectory,
                 toolParents, sdkSessionId, aborted, attemptState, nEvents>>
  /\ UNCHANGED <<callerVars, probeVars>>

\* a slip that would leave the loop (break for continue) on an event that
\* yields nothing
StreamEventStoppingOnUnknown(event) ==
  /\ chatPc = "streaming"
  /\ nEvents < MaxEvents
  /\ nEvents' = nEvents + 1
  /\ delivered' = Append(delivered, event)
  /\ LET r == StreamStep(event, finalText, toolParents)
     IN /\ out' = Yielded(out, r.yields)
        /\ finalText' = r.finalText
        /\ toolParents' = r.toolParents
        /\ notified' = notified \o r.notified
        /\ chatPc' = IF r.yields = <<>> THEN "done" ELSE chatPc
  /\ UNCHANGED <<codex, codexPromise, thread, abortController, model, thinkingLevel,
                 ultrathinkOverride, workingDirectory, sdkSessionId>>
  /\ UNCHANGED <<instances, nHandles, aborted, attemptState, resultText, turns, attachments>>
  /\ UNCHANGED <<callerVars, probeVars>>

\* one event of the streamed run
StreamEvent(event) ==
  /\ chatPc = "streaming"
  /\ nEvents < MaxEvents
  /\ nEvents' = nEvents + 1
  /\ delivered' = Append(delivered, event)
  /\ LET r == StreamStep(event, finalText, toolParents)
     IN /\ out' = Yielded(out, r.yields)
        /\ finalText' = r.finalText
        /\ toolParents' = r.toolParents
        /\ notified' = notified \o r.notified
  /\ UNCHANGED <<codex, codexPromise, thread, abortController, model, thinkingLevel,
                 ultrathinkOverride, workingDirectory, sdkSessionId>>
  /\ UNCHANGED <<instances, nHandles, aborted, attemptState, chatPc, resultText, turns, attachments>>
  /\ UNCHANGED <<callerVars, probeVars>>

\* the streamed run's event source is exhausted
StreamEnd ==
  /\ chatPc = "streaming"
  /\ Finish(finalText)
  /\ UNCHANGED <<agentVars, worldVars, resultText, nEvents, delivered, turns, attachments, callerVars, probeVars>>

\* thread.run() resolves to runResult; without an event collection the
\* generator runs on to its end
RunReturn(runResult) ==
  /\ chatPc = "running"
  /\ resultText' = extractTextComplete(runResult)
  /\ LET events == Get(runResult, "events")
     IN IF Truthy(events)
        THEN /\ chatPc' = IF Truthy(Get(events, "asyncIterator")) THEN "fallbackAsync"
                          ELSE "fallbackSync"
             /\ UNCHANGED <<out, finalText>>
        ELSE Finish(FallbackFinalText(finalText, extractTextComplete(runResult)))
  /\ UNCHANGED <<agentVars, worldVars, nEvents, delivered, turns, attachments, callerVars, probeVars>>

\* one event of runResult.events, an async iterable
FallbackAsyncEvent(event) ==
  /\ chatPc = "fallbackAsync"
  /\ nEvents < MaxEvents
  /\ nEvents' = nEvents + 1
  /\ delivered' = Append(delivered, event)
  /\ LET r == FallbackAsyncStep(event, finalText, toolParents)
     IN /\ out' = Yielded(out, r.yields)
        /\ finalText' = r.finalText
        /\ toolParents' = r.toolParents
  /\ UNCHANGED <<codex, codexPromise, thread, abortController, model, thinkingLevel,
                 ultrathinkOverride, workingDirectory, sdkSessionId>>
  /\ UNCHANGED <<worldVars, chatPc, resultText, turns, attachments, callerVars, probeVars>>

\* one event of runResult.events, a plain iterable
FallbackSyncEvent(event) ==
  /\ chatPc = "fallbackSync"
  /\ nEvents < MaxEvents
  /\ nEvents' = nEvents + 1
  /\ delivered' = Append(delivered, event)
  /\ LET r == FallbackSyncStep(event, finalText, toolParents)
     IN /\ out' = Yielded(out, r.yields)
        /\ finalText' = r.finalText
        /\ toolParents' = r.toolParents
  /\ UNCHANGED <<codex, codexPromise, thread, abortController, model, thinkingLevel,
                 ultrathinkOverride, workingDirectory, sdkSessionId>>
  /\ UNCHANGED <<worldVars, chatPc, resultText, turns, attachments, callerVars, probeVars>>

\* runResult.events is exhausted
FallbackEnd ==
  /\ chatPc \in {"fallbackAsync", "fallbackSync"}
  /\ Finish(FallbackFinalText(finalText, resultText))
  /\ UNCHANGED <<agentVars, worldVars, resultText, nEvents, delivered, turns, attachments, callerVars, probeVars>>

Init ==
  /\ Constructed(Str(M_codex), "think", Undef, Undef)
  /\ NoChat
  /\ NoCallers
  /\ NoProbe

Next ==
  \/ \E rs \in BOOLEAN : ChatBegin(FALSE, rs)
  \/ \E event \in EventPool : StreamEvent(event)
  \/ StreamEnd
  \/ \E runResult \in RunResults : RunReturn(runResult)
  \/ \E event \in EventPool : FallbackAsyncEvent(event)
  \/ \E event \in EventPool : FallbackSyncEvent(event)
  \/ FallbackEnd

Spec == Init /\ [][Next]_vars

(* ------------------------------------------------------------------ *)
(* Properties of the event sequence of a turn                         *)
(* ------------------------------------------------------------------ *)
\* the generator has returned or thrown: `out` is all the turn produced
TurnEnded == chatPc \in {"done", "threw"}
OnStreamingPath == thread.h # 0 /\ thread.runStreamed
Positions(type) == {i \in 1..Len(out) : out[i].type = type}
WithAttachments == Len(out) > 0 /\ out[1].type = "info"

\* C1: whatever finite stream the upstream delivered, on either path, the
\* sequence a finished chat() turn produced holds exactly one `complete`
\* event, and it is the last event.
C1_OneCompleteAndLast ==
  TurnEnded =>
    /\ Cardinality(Positions("complete")) = 1
    /\ out[Len(out)].type = "complete"

\* C2: the output of a turn holds at most one `text_complete` event (the
\* trailing one is emitted only when none was emitted before).
C2_AtMostOneTextComplete == Cardinality(Positions("text_complete")) <= 1

\* C3: within a turn no `text_delta` event comes after a `text_complete`.
C3_NoDeltaAfterTextComplete ==
  \A i \in Positions("text_complete") : \A j \in Positions("text_delta") : j < i

\* C4: a turn without attachments whose upstream delivered no event and
\* returned no text produced exactly [complete], on either path.
C4_EmptyTurnIsJustComplete ==
  (TurnEnded /\ delivered = <<>> /\ ~Truthy(resultText) /\ ~WithAttachments)
    => out = <<EvComplete>>

\* C5: the streamed command scenario (started, output delta, completed for
\* item c1) produces tool_start(bash, c1), tool_result(c1, "file.txt",
\* false) twice, then complete, in that order and nothing else.
CmdResult ==
  [type |-> "tool_result", toolUseId |-> Str(S_c1), result |-> Str(S_fileTxt),
   isError |-> Bool(FALSE)]
C5_CommandScenario ==
  (TurnEnded /\ OnStreamingPath /\ ~WithAttachments
   /\ delivered = <<UpCmdStarted, UpCmdOutputDelta, UpCmdCompleted>>)
    => /\ Len(out) = 4
       /\ out[1].type = "tool_start"
       /\ out[1].toolName = Str(S_bash)
       /\ out[1].toolUseId = Str(S_c1)
       /\ out[2] = CmdResult
       /\ out[3] = CmdResult
       /\ out[4] = EvComplete

(* ------------------------------------------------------------------ *)
(* normalizeToolResult on its own                                     *)
(* ------------------------------------------------------------------ *)
\* Inputs: every combination of the fields the function reads, each
\* absent, empty or set.
ToolResultInputs ==
  { Obj([id |-> id, result |-> result, stderr |-> stderr, exit_code |-> exitCode,
         is_error |-> marker, isError |-> marker2,
         item |-> Obj([status |-> status, error |-> error])]) :
      id \in {Undef, Str(<<>>), Str(S_t1)},
      result \in {Undef, Null, Str(<<>>), Str(S_out)},
      stderr \in {Undef, Str(<<>>), Str(S_err)},
      exitCode \in {Undef, Num(0), Num(1)},
      marker \in {Undef, Bool(FALSE), Bool(TRUE)},
      marker2 \in {Undef, Bool(TRUE)},
      status \in {Undef, Str(S_ok), Str(S_failed)},
      error \in {Undef, Str(S_err)} }

InitToolResult ==
  /\ Constructed(Str(M_codex), "think", Undef, Undef)
  /\ NoChat
  /\ NoCallers
  /\ probe \in ToolResultInputs
  /\ probeOut = Undef

\* probeOut is undefined until the function has been applied
NormalizeProbe ==
  /\ IsUndef(probeOut)
  /\ probeOut' = normalizeToolResult(probe)
  /\ UNCHANGED <<agentVars, worldVars, chatVars, callerVars, probe>>

NextToolResult == NormalizeProbe

SpecToolResult == InitToolResult /\ [][NextToolResult]_vars

ProbeApplied == ~IsUndef(probeOut)
ProbeItem == Get(probe, "item")

\* C6: a valid tool result is flagged as an error exactly when an explicit
\* error marker is set, or the item status is "failed", or the item has an
\* error field, or a numeric exit code is present and not zero.
C6_ErrorFlag ==
  (ProbeApplied /\ IsObject(probeOut)) =>
    (Get(probeOut, "isError").v
       <=> \/ Truthy(Get(probe, "is_error"))
           \/ Truthy(Get(probe, "isError"))
           \/ StrictEq(Get(ProbeItem, "status"), Str(S_failed))
           \/ ~IsNullish(Get(ProbeItem, "error"))
           \/ (IsNumber(Get(probe, "exit_code")) /\ Get(probe, "exit_code").v # 0))

\* the error-stream content of the input: the first of its synonymous
\* fields that is set
ProbeErrorStream == Coalesce(<<Get(probe, "stderr"), Get(ProbeItem, "error")>>)
ProbeHasId == Truthy(Get(probe, "id"))
ProbeHasResult == ~IsNullish(Get(probe, "result"))

\* C7: normalizeToolResult returns a result only when the input has both an
\* invocation id and a defined result value; the text is then the primary
\* output followed by "\n\n[stderr]\n" and the error-stream content when
\* there is such content, and the primary output alone when there is none.
C7_ResultText ==
  ProbeApplied =>
    /\ IsObject(probeOut) <=> (ProbeHasId /\ ProbeHasResult)
    /\ IsObject(probeOut) =>
         /\ Get(probeOut, "toolUseId") = Get(probe, "id")
         /\ Get(probeOut, "result").v =
              IF Truthy(ProbeErrorStream)
              THEN Get(probe, "result").v \o S_stderrLabel \o ProbeErrorStream.v
              ELSE Get(probe, "result").v

\* C7's case: output "out" and error stream "err" combined, output first
C7_Witness ==
  /\ ProbeApplied
  /\ IsObject(probeOut)
  /\ Get(probe, "stderr") = Str(S_err)
  /\ Get(probeOut, "result") = Str(S_out \o S_stderrLabel \o S_err)

(* ------------------------------------------------------------------ *)
(* ensureCodex(), ensureThread() and the setters, with several callers *)
(* ------------------------------------------------------------------ *)
\* Each caller is a chat() call at `await this.ensureThread()`.  A creation
\* attempt is the promise of the async function at lines 534-542; its
\* state says whether `await import(...)` and `new mod.Codex(...)` are
\* still pending, gave an instance, or threw.
Pending == [st |-> "pending", inst |-> 0]
Fulfilled(inst) == [st |-> "fulfilled", inst |-> inst]
Rejected == [st |-> "rejected", inst |-> 0]

\* a slip that would start a creation on every call made before one resolves
StartsAttemptUnmemoised == TRUE

\* `if (!this.codexPromise)`: the call starts a creation attempt
StartsAttempt == codexPromise = 0

\* a slip that would leave the rejected promise memoised
PromiseAfterFailureKept == codexPromise

\* `.catch((error) => { this.codexPromise = null; throw error; })`
PromiseAfterFailure == 0

\* ensureThread() up to its first suspension: the cached thread when there
\* is one, else ensureCodex() up to the promise it returns
EnsureThreadCall(c) ==
  /\ callerPc[c] = "idle"
  /\ IF thread.h # 0
     THEN /\ callerPc' = [callerPc EXCEPT ![c] = "holds"]
          /\ UNCHANGED <<codexPromise, attemptState, callerAwaits, callerGot>>
     ELSE /\ callerPc' = [callerPc EXCEPT ![c] = "awaiting"]
          /\ IF codex # 0
             THEN /\ callerAwaits' = [callerAwaits EXCEPT ![c] = 0]
                  /\ callerGot' = [callerGot EXCEPT ![c] = codex]
                  /\ UNCHANGED <<codexPromise, attemptState>>
             ELSE IF StartsAttempt
             THEN /\ Len(attemptState) < MaxAttempts
                  /\ attemptState' = Append(attemptState, Pending)
                  /\ codexPromise' = Len(attemptState) + 1
                  /\ callerAwaits' = [callerAwaits EXCEPT ![c] = Len(attemptState) + 1]
                  /\ UNCHANGED callerGot
             ELSE /\ callerAwaits' = [callerAwaits EXCEPT ![c] = codexPromise]
                  /\ UNCHANGED <<codexPromise, attemptState, callerGot>>
  /\ UNCHANGED <<codex, thread, abortController, model, thinkingLevel, ultrathinkOverride,
                 workingDirectory, toolParents, sdkSessionId>>
  /\ UNCHANGED <<notified, instances, nHandles, aborted, setterCalls, lastSetter, abortLog>>
  /\ UNCHANGED <<chatVars, probeVars>>

\* the import resolves and the constructor returns: the instance is cached
ImportResolves(a) ==
  /\ attemptState[a].st = "pending"
  /\ instances' = instances + 1
  /\ codex' = instances + 1
  /\ attemptState' = [attemptState EXCEPT ![a] = Fulfilled(instances + 1)]
  /\ UNCHANGED <<codexPromise, thread, abortController, model, thinkingLevel,
                 ultrathinkOverride, workingDirectory, toolParents, sdkSessionId>>
  /\ UNCHANGED <<notified, nHandles, aborted, chatVars, callerVars, probeVars>>

\* the import or the constructor throws: the catch handler runs
ImportFails(a) ==
  /\ attemptState[a].st = "pending"
  /\ attemptState' = [attemptState EXCEPT ![a] = Rejected]
  /\ codexPromise' = PromiseAfterFailure
  /\ UNCHANGED <<codex, thread, abortController, model, thinkingLevel,
                 ultrathinkOverride, workingDirectory, toolParents, sdkSessionId>>
  /\ UNCHANGED <<notified, instances, nHandles, aborted, chatVars, callerVars, probeVars>>

\* ensureThread() after `await this.ensureCodex()`: options, resume or
\* start, cache, report the id.  rs: the handle has runStreamed.
EnsureThreadContinue(c, rs) ==
  /\ callerPc[c] = "awaiting"
  /\ IF callerAwaits[c] = 0 THEN TRUE
     ELSE attemptState[callerAwaits[c]].st = "fulfilled"
  /\ LET options == buildThreadOptions(model, workingDirectory, thinkingLevel,
                                       ultrathinkOverride)
         made == AcquiredThread(nHandles + 1, sdkSessionId, options, rs)
     IN /\ thread' = made
        /\ notified' = IF Truthy(made.id) THEN Append(notified, made.id) ELSE notified
  /\ nHandles' = nHandles + 1
  /\ callerGot' = [callerGot EXCEPT ![c] = IF callerAwaits[c] = 0 THEN callerGot[c]
                                           ELSE attemptState[callerAwaits[c]].inst]
  /\ callerPc' = [callerPc EXCEPT ![c] = "holds"]
  /\ UNCHANGED <<codex, codexPromise, abortController, model, thinkingLevel,
                 ultrathinkOverride, workingDirectory, toolParents, sdkSessionId>>
  /\ UNCHANGED <<instances, aborted, attemptState, callerAwaits, setterCalls, lastSetter, abortLog>>
  /\ UNCHANGED <<chatVars, probeVars>>

\* the awaited creation was rejected: ensureThread() and chat() throw
EnsureThreadFails(c) ==
  /\ callerPc[c] = "awaiting"
  /\ callerAwaits[c] # 0
  /\ attemptState[callerAwaits[c]].st = "rejected"
  /\ callerPc' = [callerPc EXCEPT ![c] = "failed"]
  /\ UNCHANGED <<agentVars, worldVars, chatVars, probeVars>>
  /\ UNCHANGED <<callerAwaits, callerGot, setterCalls, lastSetter, abortLog>>

\* the caller's turn is over (or its failure was handled): it may call again
CallerReturns(c) ==
  /\ callerPc[c] \in {"holds", "failed"}
  /\ callerPc' = [callerPc EXCEPT ![c] = "idle"]
  /\ callerAwaits' = [callerAwaits EXCEPT ![c] = 0]
  /\ callerGot' = [callerGot EXCEPT ![c] = 0]
  /\ UNCHANGED <<agentVars, worldVars, chatVars, probeVars, setterCalls, lastSetter, abortLog>>

\* During a run on a started thread the SDK learns the thread's id and
\* sets it on the handle; chat() reports it (thread.started, lines 790-794).
SdkAssignsThreadId ==
  /\ thread.h # 0
  /\ IsNullish(thread.id)
  /\ \E c \in Callers : callerPc[c] = "holds"
  /\ thread' = [thread EXCEPT !.id = Str(S_th1)]
  /\ notified' = Append(notified, Str(S_th1))
  /\ UNCHANGED <<codex, codexPromise, abortController, model, thinkingLevel,
                 ultrathinkOverride, workingDirectory, toolParents, sdkSessionId>>
  /\ UNCHANGED <<instances, nHandles, aborted, attemptState>>
  /\ UNCHANGED <<chatVars, callerVars, probeVars>>

\* a slip that would build the options before the new setting is stored
ResumedWithStaleOptions(m, level, ultra) ==
  ResumedThread(nHandles + 1, thread.id,
                buildThreadOptions(model, workingDirectory, thinkingLevel,
                                   ultrathinkOverride),
                thread.runStreamed)

\* this.codex.resumeThread(this.thread.id, this.buildThreadOptions()), the
\* settings being those just stored; the handle comes from the same SDK, so
\* it has runStreamed when the old one had
Resumed(m, level, ultra) ==
  ResumedThread(nHandles + 1, thread.id,
                buildThreadOptions(m, workingDirectory, level, ultra),
                thread.runStreamed)

\* `if (this.thread?.id && this.codex)`
CanResume == Truthy(thread.id) /\ codex # 0

\* what a setter does after it stored its setting
SetterTail(name, m, level, ultra, invalidate) ==
  /\ setterCalls < MaxSetterCalls
  /\ setterCalls' = setterCalls + 1
  /\ lastSetter' = [name |-> name, before |-> thread]
  /\ thread' = IF CanResume THEN Resumed(m, level, ultra)
               ELSE IF invalidate THEN NoThread ELSE thread
  /\ nHandles' = IF CanResume THEN nHandles + 1 ELSE nHandles
  /\ UNCHANGED <<codex, codexPromise, abortController, workingDirectory, toolParents,
                 sdkSessionId>>
  /\ UNCHANGED <<notified, instances, aborted, attemptState>>
  /\ UNCHANGED <<chatVars, callerPc, callerAwaits, callerGot, abortLog, probeVars>>

\* a slip that would clear the tool-parent map with the thread
setModelClearingParents(m) ==
  /\ model' = m
  /\ setterCalls < MaxSetterCalls
  /\ setterCalls' = setterCalls + 1
  /\ lastSetter' = [name |-> "setModel", before |-> thread]
  /\ thread' = IF CanResume THEN Resumed(m, thinkingLevel, ultrathinkOverride) ELSE NoThread
  /\ nHandles' = IF CanResume THEN nHandles + 1 ELSE nHandles
  /\ toolParents' = EmptyMap
  /\ UNCHANGED <<codex, codexPromise, abortController, workingDirectory, sdkSessionId,
                 thinkingLevel, ultrathinkOverride>>
  /\ UNCHANGED <<notified, instances, aborted, attemptState>>
  /\ UNCHANGED <<chatVars, callerPc, callerAwaits, callerGot, abortLog, probeVars>>

setModel(m) ==
  /\ model' = m
  /\ SetterTail("setModel", m, thinkingLevel, ultrathinkOverride, TRUE)
  /\ UNCHANGED <<thinkingLevel, ultrathinkOverride>>

setThinkingLevel(level) ==
  /\ thinkingLevel' = level
  /\ SetterTail("setThinkingLevel", model, level, ultrathinkOverride, TRUE)
  /\ UNCHANGED <<model, ultrathinkOverride>>

setUltrathinkOverride(enabled) ==
  /\ ultrathinkOverride' = enabled
  /\ SetterTail("setUltrathinkOverride", model, thinkingLevel, enabled, FALSE)
  /\ UNCHANGED <<model, thinkingLevel>>

\* Callers racing for the connection; the settings stay as constructed.
InitConn ==
  /\ \E sid \in {Undef, Str(S_th0)} : Constructed(Str(M_codex), "think", Undef, sid)
  /\ NoChat
  /\ NoCallers
  /\ NoProbe

NextConn ==
  \/ \E c \in Callers : EnsureThreadCall(c)
  \/ \E a \in 1..Len(attemptState) : ImportResolves(a)
  \/ \E a \in 1..Len(attemptState) : ImportFails(a)
  \/ \E c \in Callers, rs \in BOOLEAN : EnsureThreadContinue(c, rs)
  \/ \E c \in Callers : EnsureThreadFails(c)
  \/ \E c \in Callers : CallerReturns(c)
  \/ SdkAssignsThreadId

SpecConn == InitConn /\ [][NextConn]_vars

Attempts == 1..Len(attemptState)

\* C8: however many callers ask for the connection before the first
\* creation resolves, only one creation is in flight and one connection
\* object is ever constructed; every caller that received a connection,
\* from the attempt it awaited or from the cache, holds that one instance.
C8_OneConnection ==
  /\ instances <= 1
  /\ Cardinality({a \in Attempts : attemptState[a].st = "pending"}) <= 1
  /\ \A a \in Attempts :
       /\ attemptState[a].st = "pending" => (codexPromise = a /\ codex = 0)
       /\ attemptState[a].st = "fulfilled" =>
            (attemptState[a].inst = codex /\ codex = instances /\ codex # 0)
  /\ \A c \in Callers : callerGot[c] # 0 => callerGot[c] = codex

\* C8's case: two callers awaited the same attempt and both hold its instance
C8_Witness ==
  /\ callerAwaits[1] # 0
  /\ callerAwaits[2] = callerAwaits[1]
  /\ callerGot[1] # 0
  /\ callerGot[2] = callerGot[1]
  /\ instances = 1

\* what holds in every state once an attempt has failed
FailureIsClean ==
  /\ \A a \in Attempts : attemptState[a].st = "rejected" =>
       /\ codexPromise # a
       /\ \A c \in Callers : callerAwaits[c] = a =>
            (callerGot[c] = 0 /\ callerPc[c] \in {"awaiting", "failed"})
  /\ (\A a \in Attempts : attemptState[a].st = "rejected") =>
       (codex = 0 /\ codexPromise = 0)

\* a call made while nothing is cached and nothing is pending
CallRetries ==
  \A c \in Callers :
    (callerPc[c] = "idle" /\ callerPc'[c] = "awaiting" /\ codex = 0 /\ codexPromise = 0) =>
      /\ Len(attemptState') = Len(attemptState) + 1
      /\ attemptState'[Len(attemptState')].st = "pending"
      /\ codexPromise' = Len(attemptState')
      /\ callerAwaits'[c] = Len(attemptState')

\* C9: when a creation attempt fails, no caller that awaited it receives a
\* connection (each of them fails), the failed attempt is no longer the
\* pending marker and nothing is cached, and a call made after the failure
\* starts a new attempt.
C9_FailureClearsAndRetries == []FailureIsClean /\ [][CallRetries]_vars

\* C9's case: the first attempt failed and caller 1 received the failure;
\* caller 2 called again, awaited a second attempt and holds its instance
C9_Witness ==
  /\ Len(attemptState) = 2
  /\ attemptState[1].st = "rejected"
  /\ callerAwaits[1] = 1
  /\ callerPc[1] = "failed"
  /\ attemptState[2].st = "fulfilled"
  /\ callerAwaits[2] = 2
  /\ callerGot[2] = codex
  /\ codex # 0

\* One caller taking turns, and the setters called between its steps.
InitSetters ==
  /\ \E m \in {Undef, Str(M_codex)}, sid \in {Undef, Str(S_th0)} :
       Constructed(m, "think", Undef, sid)
  /\ NoChat
  /\ NoCallers
  /\ NoProbe

NextSetters ==
  \/ EnsureThreadCall(1)
  \/ \E a \in 1..Len(attemptState) : ImportResolves(a)
  \/ \E a \in 1..Len(attemptState) : ImportFails(a)
  \/ \E rs \in BOOLEAN : EnsureThreadContinue(1, rs)
  \/ EnsureThreadFails(1)
  \/ CallerReturns(1)
  \/ SdkAssignsThreadId
  \/ \E m \in {Str(M_codex), Str(M_codexMini)} : setModel(m)
  \/ \E level \in ThinkingLevels : setThinkingLevel(level)
  \/ \E enabled \in BOOLEAN : setUltrathinkOverride(enabled)

SpecSetters == InitSetters /\ [][NextSetters]_vars

\* a setter call made while the cached thread has a known id
SetterCallWithKnownId == setterCalls' = setterCalls + 1 /\ Truthy(thread.id)

\* C10: a setter called while the cached thread has a known id replaces
\* the handle at once by one resumed under the same id (getSessionId() is
\* unchanged), made with the options built from the settings as they are
\* after the call, so the next turn runs with the new model and effort.
C10_SetterResumesSameThread ==
  [][SetterCallWithKnownId =>
       /\ thread'.h # 0
       /\ thread'.h # thread.h
       /\ thread'.id = thread.id
       /\ thread'.options = buildThreadOptions(model', workingDirectory',
                                               thinkingLevel', ultrathinkOverride')
       /\ thread'.options.model = model'
    ]_vars

\* C10's case: setModel was called on a thread of known id whose options
\* named another model; the new handle has that id and the new model
C10_Witness ==
  /\ lastSetter.name = "setModel"
  /\ Truthy(lastSetter.before.id)
  /\ thread.id = lastSetter.before.id
  /\ thread.h # lastSetter.before.h
  /\ thread.options.model = Str(M_codexMini)
  /\ lastSetter.before.options.model = Str(M_codex)
  /\ thread.options.modelReasoningEffort # lastSetter.before.options.modelReasoningEffort

\* a setter call made while no thread id is known
SetterCallWithoutId == setterCalls' = setterCalls + 1 /\ ~Truthy(thread.id)

\* C11: after a setter called while no thread id is known, the thread the
\* next turn uses has options that reflect the updated settings: the cached
\* handle is gone (ensureThread() will build one), and in no case does a
\* handle made with other options stay cached.
C11_SetterInvalidatesWithoutId ==
  [][SetterCallWithoutId =>
       \/ thread' = NoThread
       \/ thread'.options = buildThreadOptions(model', workingDirectory',
                                               thinkingLevel', ultrathinkOverride')
    ]_vars

(* ------------------------------------------------------------------ *)
(* The tool-parent map and parent_update                               *)
(* ------------------------------------------------------------------ *)
\* C12: an entry of the tool-parent map, once made, keeps its value
\* through every later step, in this turn and in later ones.
C12_ParentNeverOverwritten ==
  [][\A id \in DOMAIN toolParents :
       id \in DOMAIN toolParents' /\ toolParents'[id] = toolParents[id]]_vars

\* C13: in what a turn has yielded so far, on either path, every
\* parent_update is directly followed by a tool_result for the same
\* invocation id.
C13_ParentUpdateThenResult ==
  \A i \in Positions("parent_update") :
    /\ i < Len(out)
    /\ out[i + 1].type = "tool_result"
    /\ out[i + 1].toolUseId = out[i].toolUseId

\* C13's case: a turn on the non-streaming path yielded a parent_update
C13_Witness ==
  /\ chatPc = "fallbackAsync"
  /\ Positions("parent_update") # {}
  /\ \E i \in Positions("parent_update") : out[i].parentToolUseId = Str(S_p2)

\* C14: in the first turn of an agent (no earlier turn can have reported
\* the id), every parent_update comes after a tool_start for the same
\* invocation id.
C14_ParentUpdateAfterToolStart ==
  turns = 1 =>
    \A i \in Positions("parent_update") :
      \E j \in 1..(i - 1) :
        out[j].type = "tool_start" /\ out[j].toolUseId = out[i].toolUseId

(* ------------------------------------------------------------------ *)
(* Order of the normalised events                                      *)
(* ------------------------------------------------------------------ *)
\* a tool-parent map with an entry for every invocation id of the pool
AllParented == [id \in {Str(S_c1), Str(S_t1), Str(S_m1)} |-> Str(S_p1)]

\* what one upstream event can give rise to on a path: its events when its
\* id has no recorded parent, and when it has one
DerivedFrom(path, event) ==
  LET on(tp) == IF path = "streaming" THEN StreamStep(event, <<>>, tp).yields
                ELSE IF path = "fallbackAsync" THEN FallbackAsyncStep(event, <<>>, tp).yields
                ELSE FallbackSyncStep(event, <<>>, tp).yields
  IN {on(EmptyMap), on(AllParented)}

\* the step delivers one more upstream event
Delivers == Len(delivered') = Len(delivered) + 1
\* the step ends the generator
Ends == ~TurnEnded /\ TurnEnded'

\* C15: when an upstream event is delivered, the events derived from it
\* are yielded then, after all that was yielded before (so the derived
\* events are in the order of delivery); the generator ends with nothing or
\* with text_complete and complete after all of them, and yields nothing
\* once it has ended.
C15_UpstreamOrder ==
  [][/\ Delivers =>
          /\ SubSeq(delivered', 1, Len(delivered)) = delivered
          /\ \E piece \in DerivedFrom(chatPc, delivered'[Len(delivered')]) :
               out' = out \o piece
     /\ (~Delivers /\ ~Ends /\ turns' = turns) => out' = out
     /\ Ends =>
          /\ delivered' = delivered
          /\ \/ out' = out
             \/ /\ Len(out') = Len(out) + 2
                /\ SubSeq(out', 1, Len(out)) = out
                /\ out'[Len(out) + 1].type = "text_complete"
                /\ out'[Len(out) + 2].type = "complete"
    ]_vars

\* C15's case: a text delta, then a tool call, then the end of the stream
C15_Witness ==
  /\ chatPc = "done"
  /\ delivered = <<UpTextDelta, UpToolCall>>
  /\ Len(out) = 4
  /\ out[1].type = "text_delta"
  /\ out[2].type = "tool_start"

(* ------------------------------------------------------------------ *)
(* normalizeMcpToolName applied to one name, once and again            *)
(* ------------------------------------------------------------------ *)
NameAlphabet == {"a", "b", ".", ":", "/"}
S_mcpDot == S_mcp \o <<".">>

\* tool names: up to MaxNameLen characters of the alphabet, bare or after
\* `mcp.` or `mcp__`
\* `mcp__a__b`, the canonical name of the documentation
S_canonicalAB == S_mcpPrefix \o <<"a">> \o S_uu \o <<"b">>

ToolNames ==
  { prefix \o body :
      prefix \in {<<>>, S_mcpDot, S_mcpPrefix},
      body \in UNION { [1..n -> NameAlphabet] : n \in 1..MaxNameLen } }
  \cup {S_canonicalAB}

\* item contexts: none, an item without a hint, and items with a hint
ItemContexts ==
  {Undef, Obj([id |-> Str(S_m1)]), Obj([server |-> Str(S_src)]),
   Obj([provider |-> Str(S_search), server |-> Str(S_src)])}

InitMcpName ==
  /\ Constructed(Str(M_codex), "think", Undef, Undef)
  /\ NoChat
  /\ NoCallers
  /\ probe \in { [toolName |-> n, item |-> it] : n \in ToolNames, it \in ItemContexts }
  /\ probeOut = <<>>

\* probeOut: the results of the applications so far
CanonicalizeName ==
  /\ probeOut = <<>>
  /\ probeOut' = <<normalizeMcpToolName(probe.toolName, probe.item)>>
  /\ UNCHANGED <<agentVars, worldVars, chatVars, callerVars, probe>>

\* the function applied to its own result, in the same item context
CanonicalizeAgain ==
  /\ Len(probeOut) = 1
  /\ probeOut' = Append(probeOut, normalizeMcpToolName(probeOut[1], probe.item))
  /\ UNCHANGED <<agentVars, worldVars, chatVars, callerVars, probe>>

NextMcpName == CanonicalizeName \/ CanonicalizeAgain

SpecMcpName == InitMcpName /\ [][NextMcpName]_vars

NameSeparators == {".", ":", "/"}
SepFree(s) == \A i \in 1..Len(s) : s[i] \notin NameSeparators
Canonical(source, tool) ==
  <<"m", "c", "p", "_", "_">> \o source \o <<"_", "_">> \o tool
\* the source/provider hint of the item context, undefined when there is none
HintOf(item) ==
  IF IsObject(item) /\ "provider" \in DOMAIN item.v THEN item.v.provider
  ELSE IF IsObject(item) /\ "server" \in DOMAIN item.v THEN item.v.server
  ELSE Undef

\* C16: a name starting with mcp__ is returned as it is; otherwise
\* mcp.<s>.<t>, <s>.<t>, <s>:<t> and <s>/<t> (s and t without separators)
\* give mcp__<s>__<t>; a name without any separator gives
\* mcp__<hint>__<name> when the item has a hint and itself when not.
C16_Canonicalization ==
  Len(probeOut) >= 1 =>
    LET n == probe.toolName
        r == probeOut[1]
        hint == HintOf(probe.item)
        before(i) == SubSeq(n, 1, i - 1)
        after(i) == SubSeq(n, i + 1, Len(n))
    IN IF StartsWith(n, <<"m", "c", "p", "_", "_">>) THEN r = n
       ELSE /\ \A i \in 1..Len(n) :
                 (n[i] \in NameSeparators /\ SepFree(before(i)) /\ SepFree(after(i)))
                   => r = Canonical(before(i), after(i))
            /\ \A i \in 5..Len(n) :
                 (/\ StartsWith(n, <<"m", "c", "p", ".">>)
                  /\ n[i] = "."
                  /\ SepFree(SubSeq(n, 5, i - 1))
                  /\ SepFree(after(i)))
                   => r = Canonical(SubSeq(n, 5, i - 1), after(i))
            /\ SepFree(n) =>
                 r = IF IsUndef(hint) THEN n ELSE Canonical(hint.v, n)

\* C16's case: `mcp.a.b`, with a hint on the item, gave `mcp__a__b`
C16_Witness ==
  /\ probe.toolName = <<"m", "c", "p", ".", "a", ".", "b">>
  /\ ~IsUndef(HintOf(probe.item))
  /\ Len(probeOut) >= 1
  /\ probeOut[1] = <<"m", "c", "p", "_", "_", "a", "_", "_", "b">>

\* C17: applying the function to its own result, in the same item
\* context, gives that result again.
C17_Idempotent ==
  Len(probeOut) = 2 => probeOut[2] = probeOut[1]

\* C17's case: a canonical name, with a hint on the item, went through
\* twice and came out as it was
C17_Witness ==
  /\ probe.toolName = <<"m", "c", "p", "_", "_", "a", "_", "_", "b">>
  /\ ~IsUndef(HintOf(probe.item))
  /\ probeOut = <<probe.toolName, probe.toolName>>

(* ------------------------------------------------------------------ *)
(* The thinking-level normalizers applied to one level and model id    *)
(* ------------------------------------------------------------------ *)
\* model ids: none, empty, a full-size model, a mini model, and the bare
\* marker of the mini variant
ModelIds == {Undef, Str(<<>>), Str(M_codex), Str(M_codexMini), Str(S_codexMini)}

\* "" stands for a function not applied yet
InitThinking ==
  /\ Constructed(Str(M_codex), "think", Undef, Undef)
  /\ NoChat
  /\ NoCallers
  /\ probe \in { [level |-> l, modelId |-> m] : l \in ThinkingLevels, m \in ModelIds }
  /\ probeOut = [claude |-> "", codex |-> ""]

ApplyForClaude ==
  /\ probeOut.claude = ""
  /\ probeOut' = [probeOut EXCEPT !.claude = normalizeThinkingLevelForClaude(probe.level)]
  /\ UNCHANGED <<agentVars, worldVars, chatVars, callerVars, probe>>

ApplyForCodex ==
  /\ probeOut.codex = ""
  /\ probeOut' = [probeOut EXCEPT
                    !.codex = normalizeThinkingLevelForCodex(probe.level, probe.modelId)]
  /\ UNCHANGED <<agentVars, worldVars, chatVars, callerVars, probe>>

NextThinking == ApplyForClaude \/ ApplyForCodex

SpecThinking == InitThinking /\ [][NextThinking]_vars

\* C18: for each of the seven levels the Claude normalizer returns off,
\* think or max: off, think and max as they are, low as off, medium as
\* think, high and xhigh as max.
C18_ClaudeTable ==
  probeOut.claude # "" =>
    /\ probeOut.claude \in {"off", "think", "max"}
    /\ probeOut.claude =
         CASE probe.level = "off" -> "off"
           [] probe.level = "think" -> "think"
           [] probe.level = "max" -> "max"
           [] probe.level = "low" -> "off"
           [] probe.level = "medium" -> "think"
           [] probe.level = "high" -> "max"
           [] probe.level = "xhigh" -> "max"

\* C18's case: low went in, off came out
C18_Witness == probe.level = "low" /\ probeOut.claude = "off"

\* the model ids of the inputs that denote a mini variant
MiniModelIds == {Str(M_codexMini), Str(S_codexMini)}

\* C19: for each of the seven levels and each model id the Codex
\* normalizer returns low, medium, high or xhigh: the four native values as
\* they are, off as low, think as medium, max as high; for a mini model low
\* becomes medium and xhigh becomes high, so neither comes out.
C19_CodexTable ==
  probeOut.codex # "" =>
    LET native == CASE probe.level = "off" -> "low"
                    [] probe.level = "think" -> "medium"
                    [] probe.level = "max" -> "high"
                    [] probe.level \in {"low", "medium", "high", "xhigh"} -> probe.level
    IN /\ probeOut.codex \in {"low", "medium", "high", "xhigh"}
       /\ probe.modelId \notin MiniModelIds => probeOut.codex = native
       /\ probe.modelId \in MiniModelIds =>
            /\ probeOut.codex \notin {"low", "xhigh"}
            /\ probeOut.codex = CASE native = "low" -> "medium"
                                  [] native = "xhigh" -> "high"
                                  [] OTHER -> native

\* C19's case: off on a mini model came out as medium
C19_Witness ==
  /\ probe.level = "off"
  /\ probe.modelId = Str(M_codexMini)
  /\ probeOut.codex = "medium"

(* ------------------------------------------------------------------ *)
(* forceAbort()                                                        *)
(* ------------------------------------------------------------------ *)
\* a slip that would undo the abort on a second call
AbortedAfterToggling(controller, abortedSoFar) ==
  IF controller = 0 THEN abortedSoFar
  ELSE IF controller \in abortedSoFar THEN abortedSoFar \ {controller}
  ELSE abortedSoFar \cup {controller}

\* `this.abortController?.abort()`: nothing without a controller; abort()
\* sets the controller's signal, which stays set
AbortedAfter(controller, abortedSoFar) ==
  IF controller = 0 THEN abortedSoFar ELSE abortedSoFar \cup {controller}

\* the body of forceAbort(), entered from outside or from dispose()
AbortCall(call) ==
  /\ Len(abortLog) < MaxAbortCalls
  /\ abortLog' = Append(abortLog, [call |-> call, controller |-> abortController,
                                    turn |-> turns, at |-> chatPc])
  /\ aborted' = AbortedAfter(abortController, aborted)
  /\ UNCHANGED <<agentVars, notified, instances, nHandles, attemptState>>
  /\ UNCHANGED <<chatVars, callerPc, callerAwaits, callerGot, setterCalls, lastSetter,
                 probeVars>>

forceAbort == AbortCall("forceAbort")

\* a slip that would tear the cached thread and connection down
disposeTearingDown ==
  /\ Len(abortLog) < MaxAbortCalls
  /\ abortLog' = Append(abortLog, [call |-> "dispose", controller |-> abortController,
                                    turn |-> turns, at |-> chatPc])
  /\ aborted' = AbortedAfter(abortController, aborted)
  /\ thread' = NoThread
  /\ codex' = 0
  /\ UNCHANGED <<codexPromise, abortController, model, thinkingLevel, ultrathinkOverride,
                 workingDirectory, toolParents, sdkSessionId>>
  /\ UNCHANGED <<notified, instances, nHandles, attemptState>>
  /\ UNCHANGED <<chatVars, callerPc, callerAwaits, callerGot, setterCalls, lastSetter,
                 probeVars>>

\* dispose(): `this.forceAbort()`
dispose == AbortCall("dispose")

\* the events of the turns during which forceAbort() is called
AbortEventPool == {UpTextDelta, UpTurnCompleted}

NextAbort ==
  \/ ChatBegin(FALSE, TRUE)
  \/ \E event \in AbortEventPool : StreamEvent(event)
  \/ StreamEnd
  \/ forceAbort
  \/ dispose

SpecAbort == Init /\ [][NextAbort]_vars

ForceAbortStep == Len(abortLog') = Len(abortLog) + 1
\* the controller of the last run, if any, is aborted already
AbortSettled == abortController = 0 \/ abortController \in aborted

\* C20: a forceAbort() call touches nothing but the cancellation token:
\* with no turn started it changes nothing, with a controller it leaves
\* that controller aborted, and a call that follows another (the token is
\* aborted already) changes nothing.
C20_ForceAbort ==
  [][ForceAbortStep =>
       /\ UNCHANGED <<agentVars, notified, instances, nHandles, attemptState, chatVars>>
       /\ turns = 0 => aborted' = aborted
       /\ abortController # 0 => aborted' = aborted \cup {abortController}
       /\ AbortSettled => aborted' = aborted
       /\ AbortSettled'
    ]_vars

\* C20's case: two calls in a row during the first turn's run; its token is
\* aborted, as after one call
C20_Witness ==
  /\ Len(abortLog) = 2
  /\ \A i \in 1..2 : abortLog[i].call = "forceAbort" /\ abortLog[i].controller = 1
  /\ abortController = 1
  /\ aborted = {1}
  /\ chatPc = "streaming"

\* the handle the turn that begins in this step runs on is the cached one
TurnReusesThread ==
  (turns' = turns + 1 /\ thread.h # 0) => (thread' = thread /\ nHandles' = nHandles)

\* C21: a dispose() step and a forceAbort() step do the same thing, the
\* abort of the current controller, and leave the connection, the thread
\* handle with its id, the model, the thinking level and the tool-parent
\* map as they were; a turn begun after such a call runs on the cached
\* handle, with no thread started or resumed.
C21_AbortAndDisposeKeepCache ==
  [][/\ ForceAbortStep =>
          /\ aborted' = AbortedAfter(abortController, aborted)
          /\ UNCHANGED <<codex, codexPromise, thread, model, thinkingLevel, toolParents,
                         abortController, nHandles, instances, chatVars>>
     /\ abortLog # <<>> => TurnReusesThread
    ]_vars

\* C21's case: dispose() during the first turn, forceAbort() after it, and
\* a second turn running on the handle of the first
C21_Witness ==
  /\ Len(abortLog) = 2
  /\ abortLog[1].call = "dispose"
  /\ abortLog[1].controller = 1
  /\ abortLog[2].call = "forceAbort"
  /\ aborted = {1}
  /\ turns = 2
  /\ chatPc = "streaming"
  /\ thread.h = 1
  /\ nHandles = 1

(* ------------------------------------------------------------------ *)
(* Turns with attachments, a prior thread id, and a failing upstream   *)
(* ------------------------------------------------------------------ *)
\* what `delivered` records when the upstream raises instead of delivering
UpRaise == [k |-> "raise"]

\* a slip that would swallow the failure and end the turn normally
UpstreamRaisesSwallowed ==
  /\ chatPc \in {"running", "streaming", "fallbackAsync", "fallbackSync"}
  /\ delivered' = Append(delivered, UpRaise)
  /\ chatPc' = "done"
  /\ out' = Yielded(out, <<EvComplete>>)
  /\ UNCHANGED <<agentVars, worldVars, finalText, resultText, nEvents, turns, attachments,
                 callerVars, probeVars>>

\* `await thread.run(...)`, `await thread.runStreamed(...)` or the next
\* step of a `for await` rejects: chat() has no try/catch, so the generator
\* throws to its consumer; what it yielded before was already handed over
UpstreamRaises ==
  /\ chatPc \in {"running", "streaming", "fallbackAsync", "fallbackSync"}
  /\ delivered' = Append(delivered, UpRaise)
  /\ chatPc' = "threw"
  /\ UNCHANGED <<agentVars, worldVars, out, finalText, resultText, nEvents, turns,
                 attachments, callerVars, probeVars>>

\* an object none of the extractors reads anything from
UpUnrecognized == Obj([seq |-> Num(1)])

TurnEventPool == {UpTextDelta, UpThreadStarted, UpToolDone, UpNotAnObject, UpUnrecognized}

InitTurns ==
  /\ \E sid \in {Undef, Str(S_th0)} : Constructed(Str(M_codex), "think", Undef, sid)
  /\ NoChat
  /\ NoCallers
  /\ NoProbe

NextTurns ==
  \/ \E att \in BOOLEAN, rs \in BOOLEAN : ChatBegin(att, rs)
  \/ \E event \in TurnEventPool : StreamEvent(event)
  \/ StreamEnd
  \/ \E runResult \in RunResults : RunReturn(runResult)
  \/ \E event \in TurnEventPool : FallbackAsyncEvent(event)
  \/ \E event \in TurnEventPool : FallbackSyncEvent(event)
  \/ FallbackEnd
  \/ UpstreamRaises

SpecTurns == InitTurns /\ [][NextTurns]_vars

\* C22: a turn called with attachments has exactly one info event, the
\* first of the turn, and a turn called without has none; the call goes
\* on to the run with or without attachments.
C22_AttachmentsInfo ==
  /\ [](chatPc # "idle" => Positions("info") = IF attachments THEN {1} ELSE {})
  /\ [][turns' = turns + 1 =>
          /\ chatPc' \in {"streaming", "running"}
          /\ Len(out') = IF attachments' THEN 1 ELSE 0
       ]_vars

\* C22's case: a turn with attachments ran to its end; info is first, the
\* text of the stream follows
C22_Witness ==
  /\ attachments
  /\ chatPc = "done"
  /\ Len(out) = 4
  /\ out[1].type = "info"
  /\ out[2].type = "text_delta"
  /\ out[4].type = "complete"

\* C23: no id is handed to onSdkSessionIdUpdate twice.
C23_NotifiedOncePerId ==
  \A i, j \in 1..Len(notified) : notified[i] = notified[j] => i = j

\* the step in which the upstream raises
Raises == Len(delivered') = Len(delivered) + 1 /\ delivered'[Len(delivered')] = UpRaise

\* C30: when the upstream raises, the generator throws to its consumer,
\* and the events yielded before the failure are all still there, in order.
C30_FailureSurfaces ==
  [][Raises => (chatPc' = "threw" /\ out' = out)]_vars

\* C30's case: a text delta was yielded, then the stream raised
C30_Witness ==
  /\ delivered = <<UpTextDelta, UpRaise>>
  /\ chatPc = "threw"
  /\ Len(out) = 1
  /\ out[1].type = "text_delta"

(* ------------------------------------------------------------------ *)
(* The environment handed to the connection factory                    *)
(* ------------------------------------------------------------------ *)
S_ambient == <<"a">>
S_proxy == <<"p">>

\* the variables the constructor deletes for codex_oauth
DeletedForOauth ==
  {"OPENAI_API_KEY", "CODEX_API_KEY", "OPENAI_BASE_URL", "OPENAI_API_BASE",
   "ANTHROPIC_API_KEY", "CLAUDE_CODE_OAUTH_TOKEN"}

ProxyVars == {"HTTP_PROXY", "HTTPS_PROXY", "ALL_PROXY"}

\* the variables the ambient environment of the inputs may hold
AmbientNames == DeletedForOauth \cup {"ANTHROPIC_BASE_URL", "HTTP_PROXY", "PATH"}

EnvNames == AmbientNames \cup ProxyVars

\* process.env with exactly the variables of `present` set
AmbientEnv(present) ==
  [n \in EnvNames |-> IF n \in present THEN Str(S_ambient) ELSE Undef]

\* for (const [key, value] of Object.entries(process.env)) if (value !== undefined) env[key] = value
CopyEnv(ambient) == [n \in EnvNames |-> ambient[n]]

WithProxy(env, proxyUrl) ==
  [n \in EnvNames |-> IF n \in ProxyVars THEN proxyUrl ELSE env[n]]

WithoutDeleted(env) ==
  [n \in EnvNames |-> IF n \in DeletedForOauth THEN Undef ELSE env[n]]

\* the env of codexInit, as the constructor builds it
constructorEnv(ambient, proxyUrl, authType) ==
  LET copied == CopyEnv(ambient)
      proxied == IF Truthy(proxyUrl) THEN WithProxy(copied, proxyUrl) ELSE copied
  IN IF authType = "codex_oauth" THEN WithoutDeleted(proxied) ELSE proxied

\* the env generateTitleWithCodex builds
titleEnv(ambient, proxyEnabled, proxyUrl) ==
  LET stripped == WithoutDeleted(CopyEnv(ambient))
  IN IF proxyEnabled /\ Truthy(proxyUrl) THEN WithProxy(stripped, proxyUrl) ELSE stripped

AuthTypes == {"codex_oauth", "api_key", "oauth_token"}

NoEnv == [n \in EnvNames |-> Undef]

\* `built` names the environments built so far
InitEnv ==
  /\ Constructed(Str(M_codex), "think", Undef, Undef)
  /\ NoChat
  /\ NoCallers
  /\ probe \in { [ambient |-> AmbientEnv(present), proxyUrl |-> u, authType |-> a, proxyEnabled |-> e] :
                   present \in SUBSET AmbientNames,
                   u \in {Undef, Str(<<>>), Str(S_proxy)},
                   a \in AuthTypes,
                   e \in BOOLEAN }
  /\ probeOut = [built |-> {}, agent |-> NoEnv, title |-> NoEnv]

ConstructAgent ==
  /\ "agent" \notin probeOut.built
  /\ probeOut' = [probeOut EXCEPT
                    !.built = @ \cup {"agent"},
                    !.agent = constructorEnv(probe.ambient, probe.proxyUrl, probe.authType)]
  /\ UNCHANGED <<agentVars, worldVars, chatVars, callerVars, probe>>

GenerateTitle ==
  /\ "title" \notin probeOut.built
  /\ probeOut' = [probeOut EXCEPT
                    !.built = @ \cup {"title"},
                    !.title = titleEnv(probe.ambient, probe.proxyEnabled, probe.proxyUrl)]
  /\ UNCHANGED <<agentVars, worldVars, chatVars, callerVars, probe>>

NextEnv == ConstructAgent \/ GenerateTitle

SpecEnv == InitEnv /\ [][NextEnv]_vars

\* the API-key and base-URL variables of the two providers
ProviderVars == DeletedForOauth \cup {"ANTHROPIC_BASE_URL"}

\* C24: for codex_oauth the agent's environment holds no API-key or
\* base-URL variable of either provider; for another auth type every
\* ambient variable is still there; with a proxy URL configured the three
\* proxy variables equal it.
C24_SanitizedEnv ==
  "agent" \in probeOut.built =>
    /\ probe.authType = "codex_oauth" =>
         \A n \in ProviderVars : probeOut.agent[n] = Undef
    /\ probe.authType # "codex_oauth" =>
         \A n \in EnvNames : probe.ambient[n] # Undef => probeOut.agent[n] # Undef
    /\ Truthy(probe.proxyUrl) =>
         \A n \in ProxyVars : probeOut.agent[n] = probe.proxyUrl

(* ------------------------------------------------------------------ *)
(* ensureThread(), the dispatch chain and the fallback path            *)
(* ------------------------------------------------------------------ *)
\* the step in which caller c enters ensureThread()
Enters(c) == callerPc[c] = "idle" /\ callerPc'[c] # "idle"
\* the step in which a handle is asked of the connection
Acquires == nHandles' # nHandles

\* C25: ensureThread() with a cached handle returns it and asks the
\* connection for nothing; without one it resumes under the prior id when
\* one is known and starts a thread otherwise, with the current options,
\* caches the handle, and reports the id exactly when the handle has one.
C25_EnsureThread ==
  [][/\ \A c \in Callers :
          (Enters(c) /\ thread.h # 0) =>
             /\ callerPc'[c] = "holds"
             /\ thread' = thread
             /\ ~Acquires
             /\ notified' = notified
     /\ Acquires =>
          LET options == buildThreadOptions(model, workingDirectory, thinkingLevel,
                                            ultrathinkOverride)
          IN /\ nHandles' = nHandles + 1
             /\ thread'.h = nHandles'
             /\ thread'.options = options
             /\ thread'.id = IF Truthy(sdkSessionId) THEN sdkSessionId ELSE Null
             /\ notified' = IF Truthy(thread'.id) THEN Append(notified, thread'.id)
                            ELSE notified
    ]_vars

\* C25's case: the thread was resumed under the prior id, the id was
\* reported, and the second caller got the cached handle
C25_Witness ==
  /\ sdkSessionId = Str(S_th0)
  /\ thread.h = 1
  /\ thread.id = Str(S_th0)
  /\ nHandles = 1
  /\ notified = <<Str(S_th0)>>
  /\ callerPc = <<"holds", "holds">>

\* the conditions of the seven dispatch rules, in the order of the chain
RuleConditions(event) ==
  LET type == TypeOf(event)
      nit == NormalizedItemType(getItemType(event))
  IN << Truthy(extractTextDelta(event))
          /\ (Includes(type, S_delta) \/ StrictEq(nit, Str(S_agentmessage))),
        type = S_cmdOutputDelta \/ type = S_fileOutputDelta,
        isItemEvent(type) /\ StrictEq(nit, Str(S_commandexecution)),
        isItemEvent(type) /\ StrictEq(nit, Str(S_mcptoolcall)),
        Truthy(extractToolInfo(event)) /\ Includes(type, S_tool),
        Truthy(normalizeToolResult(event))
          /\ (Includes(type, S_completed) \/ type = S_itemCompletedSlash),
        Truthy(extractTextComplete(event))
          /\ (Includes(type, S_completed) \/ StrictEq(nit, Str(S_agentmessage))) >>

\* the first rule whose condition holds, 0 when none does
FirstRule(event) ==
  LET holds == {i \in 1..7 : RuleConditions(event)[i]}
  IN IF holds = {} THEN 0 ELSE CHOOSE i \in holds : \A j \in holds : i <= j

\* the first rule of each event of the pool
FirstRuleOf == [event \in EventPool |-> FirstRule(event)]

\* the types of the events a rule may yield for one upstream event
RuleOutputs(rule) ==
  CASE rule = 0 -> {<<>>}
    [] rule = 1 -> {<<"text_delta">>}
    [] rule = 2 -> {<<>>, <<"tool_result">>}
    [] rule \in {3, 4} -> {<<>>, <<"tool_start">>}
    [] rule = 5 -> {<<"tool_start">>}
    [] rule = 6 -> {<<"tool_result">>, <<"parent_update", "tool_result">>}
    [] rule = 7 -> {<<"text_complete">>}

\* the types of what the step added to the output
NewTypes == [i \in 1..(Len(out') - Len(out)) |-> out'[Len(out) + i].type]

\* C26: on the streaming path what an upstream event adds to the output is
\* the output of the first rule of the chain whose condition holds, and of
\* no other: at most one event, or parent_update followed by tool_result.
C26_FirstRuleWins ==
  [][(Delivers /\ chatPc = "streaming") =>
        /\ SubSeq(out', 1, Len(out)) = out
        /\ NewTypes \in RuleOutputs(FirstRuleOf[delivered'[Len(delivered')]])
        /\ \/ Len(NewTypes) <= 1
           \/ NewTypes = <<"parent_update", "tool_result">>
    ]_vars

\* C26's case: an agent message, which has both a delta text and a
\* complete text, yielded text_delta only; a tool result with a parent
\* yielded two events
C26_Witness ==
  /\ chatPc = "streaming"
  /\ delivered = <<UpAgentMessage, UpToolDone>>
  /\ Len(out) = 3
  /\ out[1].type = "text_delta"
  /\ out[2].type = "parent_update"
  /\ out[3].type = "tool_result"

\* the event can only match the delta, generic tool, tool-result and
\* complete rules
OnlyReducedRules(event) == FirstRule(event) \notin {2, 3, 4}

\* C27: for an event of the reduced rules the fallback loops, async and
\* sync, add to the output what the streaming loop adds for the same event.
C27_FallbackAsStreaming ==
  [][(Delivers /\ chatPc \in {"fallbackAsync", "fallbackSync"}
        /\ OnlyReducedRules(delivered'[Len(delivered')])) =>
       out' = out \o StreamStep(delivered'[Len(delivered')], finalText, toolParents).yields
    ]_vars

\* C28: on the non-streaming path, when the events (if any) gave no text
\* and the run result carries a text, the turn ends with
\* text_complete(that text) and complete; with no event collection these
\* two are the whole output.
C28_ResultTextCompletes ==
  [][(Ends /\ chatPc \in {"running", "fallbackAsync", "fallbackSync"}
        /\ finalText = <<>> /\ Truthy(resultText')) =>
       /\ chatPc' = "done"
       /\ out' = out \o <<EvTextComplete(resultText'), EvComplete>>
       /\ chatPc = "running" => out' = <<EvTextComplete(resultText'), EvComplete>>
    ]_vars

\* C28's case: the collection held a tool call and no text; the result
\* text closed the turn
C28_Witness ==
  /\ chatPc = "done"
  /\ ~thread.runStreamed
  /\ delivered = <<UpToolCall>>
  /\ Len(out) = 3
  /\ out[1].type = "tool_start"
  /\ out[2] = EvTextComplete(Str(S_ok))
  /\ out[3] = EvComplete

\* the event is not an object, or no extractor reads anything from it
NoExtractorMatches(event) ==
  \/ NotAnObject(event)
  \/ /\ IsNullish(extractEventType(event))
     /\ ~Truthy(extractTextDelta(event))
     /\ ~Truthy(extractTextComplete(event))
     /\ ~Truthy(extractToolInfo(event))
     /\ ~Truthy(normalizeToolResult(event))

\* C29: a streamed event that is not an object, or from which no extractor
\* reads anything, adds nothing to the output, leaves the final text and
\* the tool-parent map as they were, and the loop goes on.
C29_UnknownEventIgnored ==
  [][(Delivers /\ ~Raises /\ chatPc = "streaming"
        /\ NoExtractorMatches(delivered'[Len(delivered')])) =>
       /\ out' = out
       /\ finalText' = finalText
       /\ toolParents' = toolParents
       /\ chatPc' = "streaming"
    ]_vars

\* C29's case: a string and an unrecognized object were passed over, the
\* delta after them was handled
C29_Witness ==
  /\ delivered = <<UpNotAnObject, UpUnrecognized, UpTextDelta>>
  /\ chatPc = "streaming"
  /\ Len(out) = 1
  /\ out[1].type = "text_delta"

(* ------------------------------------------------------------------ *)
(* One thread handle per instance                                      *)
(* ------------------------------------------------------------------ *)
\* C37: however the ensureThread() calls of concurrent turns interleave,
\* the connection is asked for a thread at most once while nothing
\* invalidates the cached handle.
C37_OneThreadHandle == nHandles <= 1

(* ------------------------------------------------------------------ *)
(* The reasoning effort of the threads the program makes                *)
(* ------------------------------------------------------------------ *)
\* SUMMARIZATION_CODEX_MODEL
SUMMARIZATION_CODEX_MODEL == M_codexMini

\* the options generateTitleWithCodex starts its thread with
titleThreadOptions ==
  [model |-> Str(SUMMARIZATION_CODEX_MODEL),
   modelReasoningEffort |-> "low",
   skipGitRepoCheck |-> TRUE,
   approvalPolicy |-> "never"]

InitEffort ==
  /\ \E m \in ModelIds, level \in ThinkingLevels, sid \in {Undef, Str(S_th0)} :
       Constructed(m, level, Undef, sid)
  /\ NoChat
  /\ NoCallers
  /\ NoProbe

\* generateTitleWithCodex up to codex.startThread(...)
TitleThread ==
  /\ probeOut = Undef
  /\ probeOut' = [title |-> titleThreadOptions]
  /\ UNCHANGED <<agentVars, worldVars, chatVars, callerVars, probe>>

NextEffort ==
  \/ ChatBegin(FALSE, TRUE)
  \/ \E level \in ThinkingLevels : setThinkingLevel(level)
  \/ \E enabled \in BOOLEAN : setUltrathinkOverride(enabled)
  \/ TitleThread

SpecEffort == InitEffort /\ [][NextEffort]_vars

\* the model id denotes a mini variant
IsMini(m) == IsString(m) /\ Includes(m.v, S_codexMini)

\* C36: a thread made for a model whose id contains codex-mini, by the
\* agent or by title generation, has reasoning effort medium or high.
C36_MiniEffort ==
  /\ IF thread.h # 0 /\ IsMini(thread.options.model)
     THEN thread.options.modelReasoningEffort \in {"medium", "high"}
     ELSE TRUE
  /\ IF probeOut # Undef /\ IsMini(probeOut.title.model)
     THEN probeOut.title.modelReasoningEffort \in {"medium", "high"}
     ELSE TRUE

(* ------------------------------------------------------------------ *)
(* forceAbort() while a turn acquires its thread                       *)
(* ------------------------------------------------------------------ *)
\* chat(message) up to `await this.ensureThread()`: the generator is
\* suspended, this.abortController is still the one of the turn before
ChatCall ==
  /\ chatPc \in {"idle", "done", "threw"}
  /\ turns < MaxTurns
  /\ turns' = turns + 1
  /\ attachments' = FALSE
  /\ out' = <<>>
  /\ delivered' = <<>>
  /\ chatPc' = "acquiring"
  /\ UNCHANGED <<agentVars, worldVars, finalText, resultText, nEvents, callerVars, probeVars>>

\* chat() from the return of ensureThread() to the run call: the thread is
\* the cached one or a new one, then the turn's AbortController is made
ChatAcquired(rs) ==
  /\ chatPc = "acquiring"
  /\ LET options == buildThreadOptions(model, workingDirectory, thinkingLevel,
                                       ultrathinkOverride)
         made == AcquiredThread(nHandles + 1, sdkSessionId, options, rs)
         t == IF thread.h # 0 THEN thread ELSE made
     IN /\ thread' = t
        /\ nHandles' = IF thread.h # 0 THEN nHandles ELSE nHandles + 1
        /\ codex' = IF thread.h # 0 \/ codex # 0 THEN codex ELSE instances + 1
        /\ instances' = IF thread.h # 0 \/ codex # 0 THEN instances ELSE instances + 1
        /\ notified' = IF thread.h = 0 /\ Truthy(t.id) THEN Append(notified, t.id)
                       ELSE notified
        /\ chatPc' = IF t.runStreamed THEN "streaming" ELSE "running"
  /\ abortController' = NewAbortController(abortController, turns)
  /\ finalText' = <<>>
  /\ resultText' = Undef
  /\ UNCHANGED <<codexPromise, model, thinkingLevel, ultrathinkOverride, workingDirectory,
                 toolParents, sdkSessionId, aborted, attemptState, nEvents>>
  /\ UNCHANGED <<out, delivered, turns, attachments, callerVars, probeVars>>

NextCancel ==
  \/ ChatCall
  \/ ChatAcquired(TRUE)
  \/ StreamEvent(UpTextDelta)
  \/ StreamEnd
  \/ forceAbort
  \/ dispose

SpecCancel == Init /\ [][NextCancel]_vars

\* the abort call was made during the current turn
DuringThisTurn(entry) == entry.turn = turns /\ entry.at \notin {"idle", "done", "threw"}

\* the turn's run call has been made
RunCalled == chatPc \notin {"idle", "acquiring"}

\* C34: when forceAbort() was called at some moment of the current turn,
\* the acquisition of the thread included, the signal the turn's run call
\* was given is aborted.
C34_AbortNeverLost ==
  (RunCalled /\ \E i \in 1..Len(abortLog) :
                  abortLog[i].call = "forceAbort" /\ DuringThisTurn(abortLog[i]))
    => abortController \in aborted

\* C35: the signal a turn gives its run call belongs to a controller made
\* for that turn, which no earlier call aborted and which is not aborted
\* when the run starts.
C35_FreshSignalPerTurn ==
  [][(chatPc = "acquiring" /\ chatPc' # "acquiring") =>
        /\ abortController' # abortController
        /\ abortController' \notin aborted'
        /\ \A i \in 1..Len(abortLog) : abortLog[i].controller # abortController'
    ]_vars

\* C35's case: the first turn was aborted while it ran, dispose() was called
\* after it, and the second turn runs on a signal that is not aborted
C35_Witness ==
  /\ turns = 2
  /\ chatPc = "streaming"
  /\ abortController = 2
  /\ aborted = {1}
  /\ Len(abortLog) = 2
  /\ abortLog[1].call = "forceAbort"
  /\ abortLog[1].at = "streaming"
  /\ abortLog[2].call = "dispose"
  /\ abortLog[2].at = "done"

(* ------------------------------------------------------------------ *)
(* Command-execution items                                             *)
(* ------------------------------------------------------------------ *)
IT_command_dash_execution ==
  <<"c", "o", "m", "m", "a", "n", "d", "-", "e", "x", "e", "c", "u", "t", "i", "o", "n">>
IT_CommandExecution ==
  <<"C", "o", "m", "m", "a", "n", "d", "E", "x", "e", "c", "u", "t", "i", "o", "n">>
T_itemCompletedUnderscore ==
  <<"i", "t", "e", "m", "_", "c", "o", "m", "p", "l", "e", "t", "e", "d">>
T_itemStartedSlash == <<"i", "t", "e", "m", "/", "s", "t", "a", "r", "t", "e", "d">>

\* the fields mapCommandItemToTool takes the command from, in its order
CommandFields == <<"command", "cmd", "shell", "input">>

CommandItemInputs ==
  { [spelling |-> sp, type |-> ty, hasId |-> id, fields |-> fs] :
      sp \in {IT_command_execution, IT_command_dash_execution, IT_CommandExecution},
      ty \in {T_itemStarted, T_itemStartedSlash, T_itemCompletedUnderscore},
      id \in BOOLEAN,
      fs \in SUBSET {1, 2, 3, 4} }

\* the item of an input: its type, its id if it has one, and the command
\* fields it has, each with the field's name as its value
CommandItem(in) ==
  LET names == {"type"} \cup (IF in.hasId THEN {"id"} ELSE {})
                 \cup {CommandFields[i] : i \in in.fields}
  IN Obj([n \in names |-> IF n = "type" THEN Str(in.spelling)
                          ELSE IF n = "id" THEN Str(S_c1)
                          ELSE Str(<<n>>)])

CommandItemEvent(in) == Obj([type |-> Str(in.type), item |-> CommandItem(in)])

InitCommandItem ==
  /\ Constructed(Str(M_codex), "think", Undef, Undef)
  /\ NoChat
  /\ NoCallers
  /\ probe \in CommandItemInputs
  /\ probeOut = Undef

NextCommandItem ==
  \/ ChatBegin(FALSE, TRUE)
  \/ StreamEvent(CommandItemEvent(probe))
  \/ StreamEnd

SpecCommandItem == InitCommandItem /\ [][NextCommandItem]_vars

\* the value of the first command field the item has
ExpectedCommand(in) ==
  IF in.fields = {} THEN Undef
  ELSE Str(<<CommandFields[CHOOSE i \in in.fields : \A j \in in.fields : i <= j]>>)

\* C32: an item event whose item type is command_execution in any of the
\* three spellings adds, when the item has an id, exactly one tool_start
\* for bash under the item's id, with the command of the first of the
\* fields command, cmd, shell, input the item has; without an id it adds
\* nothing.
C32_CommandItem ==
  [][Delivers =>
       IF probe.hasId
       THEN /\ Len(out') = Len(out) + 1
            /\ SubSeq(out', 1, Len(out)) = out
            /\ LET e == out'[Len(out')]
               IN /\ e.type = "tool_start"
                  /\ e.toolName = Str(S_bash)
                  /\ e.toolUseId = Str(S_c1)
                  /\ e.input = Obj([command |-> ExpectedCommand(probe)])
       ELSE out' = out
    ]_vars

\* C32's case: command-execution with an id, with shell and input but
\* neither command nor cmd: one tool_start with the shell's value
C32_Witness ==
  /\ probe.spelling = IT_command_dash_execution
  /\ probe.hasId
  /\ probe.fields = {3, 4}
  /\ Len(out) = 1
  /\ out[1].type = "tool_start"
  /\ out[1].input = Obj([command |-> Str(<<"shell">>)])

(* ------------------------------------------------------------------ *)
(* An item from its start to its completion                            *)
(* ------------------------------------------------------------------ *)
\* the completions of the items of UpCmdStartedTyped and UpMcpStarted:
\* they carry the item type, like the starts, and the item's output
UpCmdCompletedTyped ==
  Obj([type |-> Str(T_itemCompleted),
       item |-> Obj([id |-> Str(S_c1), type |-> Str(IT_command_execution),
                     command |-> Str(S_ls), output |-> Str(S_fileTxt),
                     exit_code |-> Num(0)])])
UpMcpCompleted ==
  Obj([type |-> Str(T_itemCompleted),
       item |-> Obj([id |-> Str(S_m1), type |-> Str(IT_mcp_tool_call),
                     server |-> Str(S_src), tool |-> Str(S_search),
                     result |-> Str(S_out)])])

ItemEventPool == {UpCmdStartedTyped, UpCmdCompletedTyped, UpMcpStarted, UpMcpCompleted}

NextItems ==
  \/ ChatBegin(FALSE, TRUE)
  \/ \E event \in ItemEventPool : StreamEvent(event)
  \/ StreamEnd

SpecItems == Init /\ [][NextItems]_vars

\* where the event was delivered in the turn
DeliveredAt(event) == {i \in 1..Len(delivered) : delivered[i] = event}

\* the stream of the turn holds the start once and, after it, the completion once
StartedThenCompleted(started, completed) ==
  /\ Cardinality(DeliveredAt(started)) = 1
  /\ Cardinality(DeliveredAt(completed)) = 1
  /\ \A i \in DeliveredAt(started), j \in DeliveredAt(completed) : i < j

\* one tool_start for the id and a tool_result for it after that
StartMatchedByResult(id) ==
  LET starts == {i \in Positions("tool_start") : out[i].toolUseId = id}
      results == {i \in Positions("tool_result") : out[i].toolUseId = id}
  IN /\ Cardinality(starts) = 1
     /\ \E i \in starts, j \in results : i < j

\* C33: a streamed turn that was delivered the start and then the
\* completion of a command-execution or MCP tool-call item, both with the
\* item type, yields one tool_start for the item's id and, after it, a
\* tool_result for that id.
C33_StartThenResult ==
  /\ StartedThenCompleted(UpCmdStartedTyped, UpCmdCompletedTyped)
       => StartMatchedByResult(Str(S_c1))
  /\ StartedThenCompleted(UpMcpStarted, UpMcpCompleted)
       => StartMatchedByResult(Str(S_m1))

(* ------------------------------------------------------------------ *)
(* The life of an instance: turns, aborts and setting changes          *)
(* ------------------------------------------------------------------ *)
\* a slip that would drop the cached thread, as setModel does
updateWorkingDirectoryInvalidating(path) ==
  /\ workingDirectory' = path
  /\ thread' = NoThread
  /\ UNCHANGED <<codex, codexPromise, abortController, model, thinkingLevel,
                 ultrathinkOverride, toolParents, sdkSessionId>>
  /\ UNCHANGED <<worldVars, chatVars, callerVars, probeVars>>

\* updateWorkingDirectory(path): `this.workingDirectory = path`
updateWorkingDirectory(path) ==
  /\ workingDirectory' = path
  /\ UNCHANGED <<codex, codexPromise, thread, abortController, model, thinkingLevel,
                 ultrathinkOverride, toolParents, sdkSessionId>>
  /\ UNCHANGED <<worldVars, chatVars, callerVars, probeVars>>

\* an instance made for a session with a prior thread id: its threads have
\* an id, so a setter resumes when a thread is cached and drops when none is
InitLife ==
  /\ Constructed(Str(M_codex), "think", Undef, Str(S_th0))
  /\ NoChat
  /\ NoCallers
  /\ NoProbe

\* turns whose events are tool results with a parent, with dispose() (which
\* runs forceAbort()) and the two setters called at any moment
NextLife ==
  \/ ChatBegin(FALSE, TRUE)
  \/ StreamEvent(UpToolDone)
  \/ StreamEnd
  \/ dispose
  \/ setModel(Str(M_codexMini))
  \/ setThinkingLevel("max")

SpecLife == InitLife /\ [][NextLife]_vars

\* turns and model changes with updateWorkingDirectory called at any moment
NextWorkdir ==
  \/ ChatBegin(FALSE, TRUE)
  \/ StreamEnd
  \/ setModel(Str(M_codexMini))
  \/ \E path \in {Str(<<>>), Str(S_src)} : updateWorkingDirectory(path)

SpecWorkdir == InitLife /\ [][NextWorkdir]_vars

\* the child ids with a recorded parent
Parented == DOMAIN toolParents

\* C31: no step of an instance (a turn's start, events or end, an abort,
\* a dispose, a change of model or thinking level) takes an id
\* out of the tool-parent map, and no parent_update is yielded for an id
\* the map already holds, whichever turn recorded it.
C31_ParentsOnlyGrow ==
  [][/\ Parented \subseteq Parented'
     /\ turns' = turns =>
          \A i \in (Len(out) + 1)..Len(out') :
             out'[i].type = "parent_update" => out'[i].toolUseId \notin Parented
    ]_vars

\* C31's case: the parent of t1 was recorded in the first turn; after an
\* abort and a model change, the second turn's result for t1 comes with no
\* parent_update
C31_Witness ==
  /\ turns = 2
  /\ Parented = {Str(S_t1)}
  /\ delivered = <<UpToolDone>>
  /\ Len(out) = 1
  /\ out[1].type = "tool_result"
  /\ abortLog # <<>>
  /\ lastSetter.name = "setModel"

\* C38: a call of updateWorkingDirectory leaves the thread handle, the
\* connection, the model, the thinking level and the tool-parent map as
\* they were; the options of the cached handle change only with the handle,
\* and a handle made later has the directory stored then.
C38_WorkingDirectoryFrame ==
  [][/\ workingDirectory' # workingDirectory =>
          UNCHANGED <<thread, codex, codexPromise, model, thinkingLevel, ultrathinkOverride,
                      toolParents, abortController, nHandles, instances, chatVars>>
     /\ thread'.h = thread.h => thread'.options = thread.options
     /\ (thread'.h # thread.h /\ thread'.h # 0) =>
          thread'.options.workingDirectory =
            IF Truthy(workingDirectory') THEN workingDirectory' ELSE Undef
    ]_vars

\* C38's case: the first handle was made without a directory and kept its
\* options when the directory was set; the handle made by the resume after
\* it has the directory
C38_Witness ==
  /\ workingDirectory = Str(S_src)
  /\ lastSetter.name = "setModel"
  /\ lastSetter.before.h = 1
  /\ lastSetter.before.options.workingDirectory = Undef
  /\ thread.h = 2
  /\ thread.options.workingDirectory = Str(S_src)

====
